---- MODULE Spec2Model ----
(***************************************************************************)
(* A model of the OpenSCAD language server (Leathong/openscad-LSP):        *)
(*   - ParsedCode::edit and find_offset (src/server/parse_code.rs,         *)
(*     src/server/utils.rs): the text buffer, the byte offsets handed to   *)
(*     the incremental parser and the re-parse;                            *)
(*   - the document cache (src/server/code_helper.rs, handler/*.rs);       *)
(*   - the scope resolver Server::find_identities.                         *)
(* Texts are sequences of UTF-8 bytes: "x" is an ASCII byte, "nl" the      *)
(* newline byte, "m1" "m2" the two bytes of one two-byte scalar value.     *)
(***************************************************************************)
EXTENDS Integers, Sequences, FiniteSets, TLC

VARIABLES
    code,        \* ParsedCode.code: the server's text buffer (bytes)
    tree,        \* ParsedCode.tree: one cell per byte of the parsed text
    changed,     \* ParsedCode.changed
    root_items,  \* ParsedCode.root_items: None, or Some(items)
    includes,    \* ParsedCode.includes: None, or Some(include targets)
    log          \* the last handled notification: its shape, the edit it recorded
                 \* against the tree, the text the protocol defines as its result
VARIABLES
    codes,       \* Server.code: the cached documents, oldest entry first
    births,      \* the urls of the cached documents in the order of their insertion
    opens,       \* the number of files the editor has opened
    touches,     \* the number of other notifications and requests handled
    last         \* the last handled message and what it did to the cache

VARIABLES
    resident,    \* per file: whether it is in the cache, and its cached include edges
    disk,        \* per file: "ok", "bad" (no valid text) or "gone"
    answer       \* the last request of the resolver specification and its result

editVars == <<code, tree, changed, root_items, includes, log>>

cacheVars == <<codes, births, opens, touches, last>>

VARIABLES
    lookup,      \* one call of get_include_url: its inputs and what it returned
    renaming,    \* the last rename request and the responses sent for it
    session,     \* a document as lines of statements, the last notification
                 \* about it and the diagnostics published in answer
    extraction,  \* the top-level nodes of a syntax tree with their rows, and
                 \* the items extracted from them with their doc strings
    serving,     \* the main loop: whether it still receives, the cached
                 \* documents, and the last message with what it returned
    formatting,  \* the last format-document request: the document before and after, what the formatter did, the responses
    config,      \* the configuration of the server, the last configuration payload and the configuration before it
    toplevel,    \* the document top-level extraction ran on, the files on disk, and the items and include edges it produced
    sync,        \* one document as the editor holds it and as the server caches it, and the last notification or request about it
    located,     \* a text, a position in or outside it, and what find_offset returned for them
    workspace,   \* one resident document with an include statement and a module: its cached includes and snippet, and the last completion response
    cursor       \* the last completion request's position, the lookup point handle_completion computed from it, and whether the subtraction panicked

resolveVars == <<resident, disk, answer>>

\* the variables of the specifications of single handlers and functions
restVars == <<lookup, renaming, session, extraction, serving, formatting, config, toplevel, sync, located, workspace, cursor>>

vars == <<editVars, cacheVars, resolveVars, restVars>>

----------------------------------------------------------------------------
(* Bounds of the model *)

\* longest document the editor produces, in scalar values
MaxChars == 2
\* the files the editor opens before it does anything else
QuietOpens == 99
\* the files the editor opens in all
MaxFiles == 102
\* the notifications and requests, other than the opening of a fresh file,
\* that the cache specifications follow
MaxTouches == 2

----------------------------------------------------------------------------
(* Texts *)

Scalars == {"x", "nl", "m"}

\* a scalar value's UTF-8 bytes
Utf8(c) == IF c = "m" THEN <<"m1", "m2">> ELSE <<c>>

RECURSIVE Encode(_)
Encode(s) == IF s = <<>> THEN <<>> ELSE Utf8(Head(s)) \o Encode(Tail(s))

RECURSIVE SeqsUpTo(_, _)
SeqsUpTo(S, n) ==
    IF n = 0 THEN {<<>>}
    ELSE LET shorter == SeqsUpTo(S, n - 1)
         IN  shorter \cup {Append(s, c) : s \in shorter, c \in S}

\* the replacement texts the editor sends in ranged events
InsTexts == {<<>>, <<"nl">>, <<"m">>}

\* the texts the editor sends in full-text events
FullTexts == {<<>>, <<"m">>, <<"x", "nl">>}

None == <<"None">>
Some(v) == <<"Some", v>>

Min(S) == CHOOSE m \in S : \A k \in S : m <= k
Max(S) == CHOOSE m \in S : \A k \in S : k <= m

----------------------------------------------------------------------------
(* utils.rs: find_offset.  An offset is a natural number; the two other    *)
(* outcomes of the Rust function are None and a panic (a slice that starts *)
(* past the end of the text or inside a scalar value).                     *)

NoneOfs == 0 - 1
PanicOfs == 0 - 2

\* str::is_char_boundary
IsCharBoundary(text, i) ==
    \/ i = 0
    \/ i = Len(text)
    \/ (0 < i /\ i < Len(text) /\ text[i + 1] # "m2")

\* text[offset..].find('\n').unwrap_or_default()
FindNlOrDefault(text, offset) ==
    LET hits == {k \in 0..(Len(text) - offset - 1) : text[offset + k + 1] = "nl"}
    IN  IF hits = {} THEN 0 ELSE Min(hits)

\* for _ in 0..pos.line { offset += text[offset..].find('\n').unwrap_or_default() + 1; }
RECURSIVE SkipLines(_, _, _)
SkipLines(text, offset, n) ==
    IF n = 0 THEN offset
    ELSE IF ~IsCharBoundary(text, offset) THEN PanicOfs
    ELSE SkipLines(text, offset + FindNlOrDefault(text, offset) + 1, n - 1)

\* char::len_utf8 of the scalar value that starts at offset
LenUtf8At(text, offset) == IF text[offset + 1] = "m1" THEN 2 ELSE 1

\* for _ in 0..pos.character { offset += chars.next()?.len_utf8(); }
RECURSIVE SkipChars(_, _, _)
SkipChars(text, offset, n) ==
    IF n = 0 THEN offset
    ELSE IF offset >= Len(text) THEN NoneOfs
    ELSE SkipChars(text, offset + LenUtf8At(text, offset), n - 1)

\* a find_offset that advances one byte per character, whatever its length
find_offset_one_byte_per_char(text, line, character) ==
    LET offset == SkipLines(text, 0, line)
    IN  IF offset = PanicOfs \/ ~IsCharBoundary(text, offset) THEN PanicOfs
        ELSE IF offset + character > Len(text) THEN NoneOfs
        ELSE offset + character

find_offset(text, line, character) ==
    LET offset == SkipLines(text, 0, line)
    IN  IF offset = PanicOfs \/ ~IsCharBoundary(text, offset) THEN PanicOfs
        ELSE SkipChars(text, offset, character)

----------------------------------------------------------------------------
(* The syntax tree, as far as incremental parsing is concerned: one cell   *)
(* per byte of the text it was parsed from.  Tree::edit replaces the cells *)
(* of the edited range by cells marked "?" (has_changes); a re-parse with  *)
(* the old tree keeps every unmarked cell and reads the text only where a  *)
(* cell is marked or missing.                                              *)

Marks(n) == [i \in 1..n |-> "?"]

\* parser.parse(&code, None)
FullParse(text) == text

\* a Tree::edit told that the new text ends where the old text ended
TreeEditKeepingLength(cells, start_byte, old_end_byte, new_end_byte) ==
    LET s == IF start_byte > Len(cells) THEN Len(cells) ELSE start_byte
        e == IF old_end_byte > Len(cells) THEN Len(cells) ELSE old_end_byte
    IN  SubSeq(cells, 1, s) \o Marks(e - s) \o SubSeq(cells, e + 1, Len(cells))

\* old_tree.edit(&InputEdit { start_byte, old_end_byte, new_end_byte, .. })
TreeEdit(cells, start_byte, old_end_byte, new_end_byte) ==
    LET s == IF start_byte > Len(cells) THEN Len(cells) ELSE start_byte
        e == IF old_end_byte > Len(cells) THEN Len(cells) ELSE old_end_byte
    IN  SubSeq(cells, 1, s) \o Marks(new_end_byte - start_byte)
            \o SubSeq(cells, e + 1, Len(cells))

\* parser.parse(&code, Some(old_tree))
IncrementalParse(text, cells) ==
    [i \in 1..Len(text) |->
        IF i <= Len(cells) /\ cells[i] # "?" THEN cells[i] ELSE text[i]]

----------------------------------------------------------------------------
(* The editor's side of the protocol: positions are (line, character) in   *)
(* scalar values; the events of a batch apply one after the other.         *)

\* the scalar values of a text that is valid UTF-8
RECURSIVE Decode(_)
Decode(b) ==
    IF b = <<>> THEN <<>>
    ELSE IF Head(b) = "m1" THEN <<"m">> \o Decode(Tail(Tail(b)))
    ELSE <<Head(b)>> \o Decode(Tail(b))

AllTexts == SeqsUpTo(Scalars, MaxChars)

NlCount(s) == Cardinality({i \in 1..Len(s) : s[i] = "nl"})

\* index of the first scalar of a line (0-based), for line <= NlCount(s)
LineStart(s, line) ==
    IF line = 0 THEN 0
    ELSE Min({i \in 1..Len(s) :
                s[i] = "nl" /\ Cardinality({j \in 1..i : s[j] = "nl"}) = line})

LineLen(s, line) ==
    LET start == LineStart(s, line)
        ends  == {i \in (start + 1)..Len(s) : s[i] = "nl"}
    IN  IF ends = {} THEN Len(s) - start ELSE Min(ends) - 1 - start

\* the positions that lie in s
PositionsIn(s) ==
    {p \in (0..NlCount(s)) \X (0..Len(s)) : p[2] <= LineLen(s, p[1])}

PosIndex(s, pos) == LineStart(s, pos[1]) + pos[2]

RangedEvent(from, to, text) == [ranged |-> TRUE, start |-> from, end |-> to, text |-> text]
FullEvent(text) == [ranged |-> FALSE, start |-> <<0, 0>>, end |-> <<0, 0>>, text |-> text]

\* an empty slot of a batch
NoEvent == [ranged |-> FALSE, start |-> <<0, 0>>, end |-> <<0, 0>>, text |-> <<"none">>]

\* the text after one event, as the protocol defines it
RefApply(s, ev) ==
    IF ev.ranged
    THEN SubSeq(s, 1, PosIndex(s, ev.start)) \o ev.text
            \o SubSeq(s, PosIndex(s, ev.end) + 1, Len(s))
    ELSE ev.text

\* the range of a ranged event lies in s
ValidFor(s, ev) ==
    ev.ranged => /\ ev.start \in PositionsIn(s)
                 /\ ev.end \in PositionsIn(s)
                 /\ PosIndex(s, ev.start) <= PosIndex(s, ev.end)

\* the events an editor holding s can send: a replacement of a range of s
\* that changes something, or a new full text
EventsFor(s) ==
    {ev \in {RangedEvent(from, to, t) :
                from \in PositionsIn(s), to \in PositionsIn(s), t \in InsTexts} :
        /\ ValidFor(s, ev)
        /\ (ev.start # ev.end \/ ev.text # <<>>)
        /\ Len(RefApply(s, ev)) <= MaxChars}
    \cup {FullEvent(t) : t \in FullTexts}

RECURSIVE RefApplyAll(_, _)
RefApplyAll(s, batch) ==
    IF batch = <<>> THEN s ELSE RefApplyAll(RefApply(s, Head(batch)), Tail(batch))

----------------------------------------------------------------------------
(* parse_code.rs: ParsedCode::edit *)

\* no InputEdit recorded yet
NoEdit == [start_byte |-> 0 - 1, old_end_byte |-> 0 - 1, new_end_byte |-> 0 - 1,
           new_end_position |-> <<0 - 1, 0 - 1>>]

\* the loop's state: the buffer, the old tree (cells) while old_tree is Some,
\* whether a full-text event ended the loop, whether an unwrap or a slice
\* panicked, the InputEdit of the last ranged event
LoopState(c, cells, old, stop, panic) ==
    [code |-> c, cells |-> cells, old_tree |-> old, stopped |-> stop, panicked |-> panic,
     input_edit |-> NoEdit]

\* event.text.rfind('\n'), 0-based
RFindNl(text) == Max({i \in 1..Len(text) : text[i] = "nl"}) - 1

\* the Point { row, column } of lines 68-80
NewEndPosition(start, text) ==
    IF \E i \in 1..Len(text) : text[i] = "nl"
    THEN <<start[1] + Cardinality({i \in 1..Len(text) : text[i] = "nl"}),
           Len(text) - RFindNl(text)>>
    ELSE <<start[1], start[2] + Len(text)>>

\* the body of `if let Some(range) = event.range`, with both offsets computed:
\* the unwraps, String::replace_range, Tree::edit
EditRanged(st, start, text, start_ofs, end_ofs) ==
    IF \/ start_ofs < 0
       \/ end_ofs < 0
       \/ start_ofs > end_ofs
       \/ ~IsCharBoundary(st.code, start_ofs)
       \/ ~IsCharBoundary(st.code, end_ofs)
    THEN [st EXCEPT !.panicked = TRUE]
    ELSE [st EXCEPT
            !.code  = SubSeq(st.code, 1, start_ofs) \o text
                        \o SubSeq(st.code, end_ofs + 1, Len(st.code)),
            !.cells = TreeEdit(st.cells, start_ofs, end_ofs, start_ofs + Len(text)),
            !.input_edit = [start_byte |-> start_ofs, old_end_byte |-> end_ofs,
                            new_end_byte |-> start_ofs + Len(text),
                            new_end_position |-> NewEndPosition(start, text)]]

\* one iteration of `for event in events`; the else branch ends the loop
EditEvent(st, ev) ==
    IF st.stopped \/ st.panicked THEN st
    ELSE IF ev.ranged
    THEN EditRanged(st, ev.start, Encode(ev.text),
                    find_offset(st.code, ev.start[1], ev.start[2]),
                    find_offset(st.code, ev.end[1], ev.end[2]))
    ELSE [st EXCEPT !.old_tree = FALSE, !.code = Encode(ev.text), !.stopped = TRUE]

RECURSIVE EditLoop(_, _)
EditLoop(st, events) ==
    IF events = <<>> THEN st ELSE EditLoop(EditEvent(st, Head(events)), Tail(events))

\* the tree the final parse of edit() returns
Reparse(st) ==
    IF st.old_tree THEN IncrementalParse(st.code, st.cells) ELSE FullParse(st.code)

----------------------------------------------------------------------------
(* Urls and files.  A url is a number: 0 is BUILTIN_PATH, n > 0 is the     *)
(* n-th file.  An include path names the file whose number is the length   *)
(* of the path.                                                            *)

BUILTIN_PATH == 0

\* the threshold of insert_code
CacheLimit == 100

NoFile == <<"no file">>

\* the files on disk: the first holds one declaration, the second includes
\* the first, the other files are not saved
DiskText(url) ==
    IF url = 1 THEN <<"x", "nl">>
    ELSE IF url = 2 THEN <<"m1", "m2", "x">>
    ELSE NoFile

\* the text of the builtin document
BuiltinText == <<"x">>

\* the text of a file the editor opens
OpenText == <<"x", "nl">>

\* the files the editor re-opens, edits and queries
FocusFiles == {1, 2}

----------------------------------------------------------------------------
(* parse_code.rs: the cached top-level items and include targets.  A       *)
(* top-level node of the tree is a line: a line that starts with the       *)
(* two-byte scalar is an include statement whose path is the rest of the   *)
(* line, every other line that is not empty is a declaration.              *)

\* the byte ranges <<start, end>> (end exclusive) of the top-level nodes
TopLevelNodes(cells) ==
    {r \in (0..Len(cells)) \X (0..Len(cells)) :
        /\ r[1] < r[2]
        /\ \A i \in (r[1] + 1)..r[2] : cells[i] # "nl"
        /\ (r[1] = 0 \/ cells[r[1]] = "nl")
        /\ (r[2] = Len(cells) \/ cells[r[2] + 1] = "nl")}

\* the nodes of a set of ranges, in document order
RECURSIVE InOrder(_)
InOrder(ranges) ==
    IF ranges = {} THEN <<>>
    ELSE LET first == CHOOSE r \in ranges : \A q \in ranges : r[1] <= q[1]
         IN  <<first>> \o InOrder(ranges \ {first})

is_include_statement(cells, r) == cells[r[1] + 1] = "m1"

\* Item::parse: Some for a declaration
ItemParse(cells, r) ==
    IF is_include_statement(cells, r) THEN None
    ELSE Some([name |-> SubSeq(cells, r[1] + 1, r[2]), range |-> r])

\* get_include_url: None for an empty path and for a path that names no
\* file on disk
get_include_url(cells, r) ==
    IF r[2] - r[1] <= 2 \/ DiskText(r[2] - r[1] - 2) = NoFile THEN None
    ELSE Some(r[2] - r[1] - 2)

\* the loop of gen_top_level_items over the children of the root
RECURSIVE GenLoop(_, _, _, _)
GenLoop(cells, nodes, ret, inc) ==
    IF nodes = <<>> THEN [root_items |-> Some(ret), includes |-> Some(inc)]
    ELSE LET r    == Head(nodes)
             item == ItemParse(cells, r)
             url  == get_include_url(cells, r)
         IN  IF item # None
             THEN GenLoop(cells, Tail(nodes), Append(ret, item[2]), inc)
             ELSE IF url # None
             THEN GenLoop(cells, Tail(nodes), ret, Append(inc, url[2]))
             ELSE GenLoop(cells, Tail(nodes), ret, inc)

gen_top_level_items(cells) == GenLoop(cells, InOrder(TopLevelNodes(cells)), <<>>, <<>>)

\* a ParsedCode, as far as its caches go
Caches(cells, flag, items, incs) ==
    [tree |-> cells, changed |-> flag, root_items |-> items, includes |-> incs]

\* a gen_top_level_items_if_needed that looks at the caches only
gen_if_missing(pc) ==
    IF pc.root_items # None THEN pc
    ELSE [pc EXCEPT !.changed = FALSE,
                    !.root_items = gen_top_level_items(pc.tree).root_items,
                    !.includes = gen_top_level_items(pc.tree).includes]

gen_top_level_items_if_needed(pc) ==
    IF pc.root_items # None /\ ~pc.changed THEN pc
    ELSE [pc EXCEPT !.changed = FALSE,
                    !.root_items = gen_top_level_items(pc.tree).root_items,
                    !.includes = gen_top_level_items(pc.tree).includes]

----------------------------------------------------------------------------
(* mod.rs, code_helper.rs: the document cache Server.code, a LinkedHashMap *)
(* from urls to documents, oldest entry at the front.  A server value is   *)
(* the map together with what the running handler did to it: the urls it   *)
(* inserted and evicted, and whether it panicked.                          *)

\* ParsedCode::new
NewParsedCode(url, text) ==
    [url |-> url, code |-> text, tree |-> FullParse(text), changed |-> TRUE,
     root_items |-> None, includes |-> None]

Srv(map) == [codes |-> map, inserted |-> <<>>, evicted |-> <<>>, panicked |-> FALSE]

Urls(map) == [i \in 1..Len(map) |-> map[i].url]

contains_key(map, url) == \E i \in 1..Len(map) : map[i].url = url

IndexOf(map, url) == CHOOSE i \in 1..Len(map) : map[i].url = url

\* LinkedHashMap::get
MapGet(map, url) == map[IndexOf(map, url)]

MapRemove(map, url) == SelectSeq(map, LAMBDA e : e.url # url)

\* LinkedHashMap::insert: a new entry, or the entry of a resident key, goes
\* to the back
MapInsert(map, entry) == Append(MapRemove(map, entry.url), entry)

\* a LinkedHashMap::get_mut: the entry stays where it is
get_mut(map, url) == map

\* LinkedHashMap::get_refresh: the entry moves to the back
get_refresh(map, url) == Append(MapRemove(map, url), MapGet(map, url))

\* the value behind an Rc<RefCell<ParsedCode>> is updated in place
MapUpdate(map, url, entry) == [map EXCEPT ![IndexOf(map, url)] = entry]

\* while self.code.len() > 100 { self.code.pop_front(); }
RECURSIVE EvictLoop(_)
EvictLoop(s) ==
    IF Len(s.codes) > CacheLimit
    THEN EvictLoop([s EXCEPT !.codes = Tail(s.codes),
                             !.evicted = Append(s.evicted, Head(s.codes).url)])
    ELSE s

\* an insert_code that never evicts
insert_code_keeping_all(s, url, text) ==
    [s EXCEPT !.codes = MapInsert(s.codes, NewParsedCode(url, text)),
              !.inserted = Append(s.inserted, url)]

insert_code(s, url, text) ==
    [EvictLoop(s) EXCEPT
        !.codes = MapInsert(EvictLoop(s).codes, NewParsedCode(url, text)),
        !.inserted = Append(s.inserted, url)]

\* the outcome of an operation that looks a document up
Outcome(s, found) == [srv |-> s, found |-> found]

\* a read_and_cache that replaces the entry whatever the file holds
read_and_cache_always_new(s, url, unc_paths) ==
    IF url = BUILTIN_PATH /\ ~unc_paths
    THEN Outcome([s EXCEPT !.panicked = TRUE], FALSE)
    ELSE IF url = BUILTIN_PATH \/ DiskText(url) = NoFile
    THEN Outcome(s, FALSE)
    ELSE Outcome(insert_code(s, url, DiskText(url)), TRUE)

\* url.to_file_path().unwrap() fails for the host of BUILTIN_PATH unless the
\* platform reads it as a UNC path (then the read fails); read_to_string(..)?
\* returns the error of a missing file
read_and_cache(s, url, unc_paths) ==
    IF url = BUILTIN_PATH /\ ~unc_paths
    THEN Outcome([s EXCEPT !.panicked = TRUE], FALSE)
    ELSE IF url = BUILTIN_PATH \/ DiskText(url) = NoFile
    THEN Outcome(s, FALSE)
    ELSE IF contains_key(s.codes, url) /\ MapGet(s.codes, url).code = DiskText(url)
    THEN Outcome(s, TRUE)
    ELSE Outcome(insert_code(s, url, DiskText(url)), TRUE)

get_code(s, url, unc_paths) ==
    IF contains_key(s.codes, url)
    THEN Outcome(s, TRUE)
    ELSE read_and_cache(s, url, unc_paths)

\* doc.borrow_mut().gen_top_level_items_if_needed() on a resident document
GenItemsOf(s, url) ==
    [s EXCEPT !.codes = MapUpdate(s.codes, url,
                            gen_top_level_items_if_needed(MapGet(s.codes, url)))]

\* find_identities, as far as the cache goes: the loop over include_vec loads
\* each target, regenerates its caches under borrow_mut (a panic when the
\* target is already borrowed) and recurses into its include targets; a
\* target that cannot be loaded ends the loop
RECURSIVE VisitIncludes(_, _, _, _)
VisitIncludes(s, include_vec, borrowed, unc_paths) ==
    IF s.panicked \/ include_vec = <<>> THEN s
    ELSE LET inc == Head(include_vec)
             got == get_code(s, inc, unc_paths)
         IN  IF got.srv.panicked \/ ~got.found THEN got.srv
             ELSE IF inc \in borrowed THEN [got.srv EXCEPT !.panicked = TRUE]
             ELSE VisitIncludes(
                     VisitIncludes(GenItemsOf(got.srv, inc),
                                   MapGet(GenItemsOf(got.srv, inc).codes, inc).includes[2],
                                   borrowed \cup {inc}, unc_paths),
                     Tail(include_vec), borrowed, unc_paths)

----------------------------------------------------------------------------
(* code_helper.rs, response_item.rs: the scope resolver.  Here a document  *)
(* is its syntax tree: a node has a kind, the name and the parameters of   *)
(* the declaration it is (if any), the file its include path names (0: an  *)
(* empty path) and its children; a leaf takes one byte of the text.  A     *)
(* node is addressed by the path of child indexes that leads to it from    *)
(* the root.                                                               *)

Nd(kind, name, params, path, kids) ==
    [kind |-> kind, name |-> name, params |-> params, path |-> path, kids |-> kids]

Tok == Nd("token", "", <<>>, 0, <<>>)

Ident(name) == Nd("identifier", name, <<>>, 0, <<>>)

\* name = 1;
Assignment(name) == Nd("assignment", name, <<>>, 0, <<Ident(name), Tok, Tok>>)

\* echo(name);
Use(name) ==
    Nd("module_call", "", <<>>, 0,
       <<Tok, Nd("arguments", "", <<>>, 0, <<Tok, Ident(name), Tok>>)>>)

\* { items }
Block(items) == Nd("union_block", "", <<>>, 0, <<Tok>> \o items \o <<Tok>>)

\* module name(params) { items }
Module(name, params, items) ==
    Nd("module_declaration", name, params, 0,
       <<Tok, Ident(name), Nd("parameters", "", <<>>, 0, <<Tok, Tok>>), Block(items)>>)

\* module (params) { items }: a module declaration that has no name
NamelessModule(params, items) ==
    Nd("module_declaration", "", params, 0,
       <<Tok, Nd("parameters", "", <<>>, 0, <<Tok, Tok>>), Block(items)>>)

\* function name(params) = value;
Function(name, params, value) ==
    Nd("function_declaration", name, params, 0,
       <<Tok, Ident(name), Nd("parameters", "", <<>>, 0, <<Tok, Tok>>), Tok, Ident(value)>>)

\* include <path>
Include(path) ==
    Nd("include_statement", "", <<>>, path, <<Tok, Nd("include_path", "", <<>>, path, <<>>)>>)

\* use <path>
UseFile(path) ==
    Nd("use_statement", "", <<>>, path, <<Tok, Nd("include_path", "", <<>>, path, <<>>)>>)

Source(items) == Nd("source_file", "", <<>>, 0, items)

\* the files of the workspace: the builtin document, the document the editor
\* works on and the libraries it includes, three files whose includes form
\* cycles, a file with a module declared inside a module, and a file with a
\* module declaration that has no name
Files == {BUILTIN_PATH, 1, 2, 3, 4, 5, 6, 7, 8, 9, 10}

\* the document the editor has open
MainFile == BUILTIN_PATH + 1

\* the library whose file can become unreadable or disappear
FlakyFiles == {2}

\* the syntax trees of the files.  File 1:
\*     x = 1; include <2> use <3>
\*     module m(p) { y = 1; include <4> include <5> { x = 2; echo(x); } z = 1; }
\*     function f(q) = q;  echo(d);  w = 1;
\* files 2 and 3 both include file 4.  File 6:
\*     g = 1; include <7> echo(g); echo(h); echo(k);
\* file 7 includes file 6 and declares h; file 8 includes itself.  File 9:
\*     module o(v) { u = 1; module i(r) { function j(a) = t; echo(v); } t = 1; }
\*     echo(o);
\* file 10:
\*     module o(v) { module i(r) { echo(r); } module (a) { echo(r); echo(a); }
\*                   function j(t) = r; echo(v); }
Tree(url) ==
    CASE url = BUILTIN_PATH ->
            Source(<<Module("cube", <<"size">>, <<>>)>>)
      [] url = 1 ->
            Source(<<Assignment("x"), Include(2), UseFile(3),
                     Module("m", <<"p">>,
                            <<Assignment("y"), Include(4), Include(5),
                              Block(<<Assignment("x"), Use("x")>>),
                              Assignment("z")>>),
                     Function("f", <<"q">>, "q"),
                     Use("d"),
                     Assignment("w")>>)
      [] url = 2 -> Source(<<Include(4), Assignment("b")>>)
      [] url = 3 -> Source(<<Include(4), Assignment("c")>>)
      [] url = 4 -> Source(<<Assignment("d")>>)
      [] url = 6 -> Source(<<Assignment("g"), Include(7), Use("g"), Use("h"), Use("k")>>)
      [] url = 7 -> Source(<<Include(6), Assignment("h")>>)
      [] url = 8 -> Source(<<Include(8), Assignment("s"), Use("s"), Use("k")>>)
      [] url = 9 ->
            Source(<<Module("o", <<"v">>,
                            <<Assignment("u"),
                              Module("i", <<"r">>,
                                     <<Function("j", <<"a">>, "t"), Use("v")>>),
                              Assignment("t")>>),
                     Use("o")>>)
      [] url = 10 ->
            Source(<<Module("o", <<"v">>,
                            <<Module("i", <<"r">>, <<Use("r")>>),
                              NamelessModule(<<"a">>, <<Use("r"), Use("a")>>),
                              Function("j", <<"t">>, "r"),
                              Use("v")>>)>>)
      [] OTHER   -> Source(<<Assignment("e")>>)

RECURSIVE Size(_), SizeAll(_)
\* the number of bytes of a node
Size(n) == IF n.kids = <<>> THEN 1 ELSE SizeAll(n.kids)

SizeAll(kids) == IF kids = <<>> THEN 0 ELSE Size(Head(kids)) + SizeAll(Tail(kids))

RECURSIVE NodeAt(_, _)
NodeAt(n, at) == IF at = <<>> THEN n ELSE NodeAt(n.kids[Head(at)], Tail(at))

RECURSIVE start_byte(_, _)
\* Node::start_byte
start_byte(n, at) ==
    IF at = <<>> THEN 0
    ELSE SizeAll(SubSeq(n.kids, 1, Head(at) - 1)) + start_byte(n.kids[Head(at)], Tail(at))

\* Node::end_byte
end_byte(n, at) == start_byte(n, at) + Size(NodeAt(n, at))

\* Node::parent
Parent(at) == SubSeq(at, 1, Len(at) - 1)

\* Node::prev_sibling of a node that is not a first child
PrevSibling(at) == [at EXCEPT ![Len(at)] = at[Len(at)] - 1]

RECURSIVE PathsUnder(_, _)
\* the paths of the nodes of a tree, from the node at `at` down
PathsUnder(n, at) ==
    {at} \cup UNION {PathsUnder(n.kids[i], Append(at, i)) : i \in 1..Len(n.kids)}

Paths(url) == PathsUnder(Tree(url), <<>>)

\* the nodes of every file with their byte ranges
Layout ==
    [url \in Files |->
        [at \in Paths(url) |->
            [node |-> NodeAt(Tree(url), at),
             start_byte |-> start_byte(Tree(url), at),
             end_byte |-> end_byte(Tree(url), at)]]]

\* KindExt::is_include_statement
IsIncludeKind(kind) == kind \in {"include_statement", "use_statement"}

Callables == {"module_declaration", "function_declaration"}

\* Item::parse: a module or function declaration or an assignment that has
\* its name
ParseItem(n) ==
    IF n.kind \in Callables \cup {"assignment"} /\ n.name # ""
    THEN Some(n.name)
    ELSE None

\* an Item: the declaration at `at` of document url, or its param-th
\* parameter; via is the position in include_vec of the include it was found
\* through (0: found in the document itself)
Item(url, at, param, name) ==
    [url |-> url, at |-> at, param |-> param, name |-> name, via |-> 0]

Matching(items, names) == SelectSeq(items, LAMBDA it : it.name \in names)

\* ParsedCode::get_include_url of the tree model: the file an include
\* statement names, if the path is not empty and the file exists
IncludeTarget(files, n) ==
    IF n.path = 0 \/ files[n.path] = "gone" THEN None ELSE Some(n.path)

\* an entry of include_vec: the target, the statement that names it (no
\* statement for the builtin document) and whether the scope walk met it
Edge(url, stmt, met) == [url |-> url, stmt |-> stmt, met |-> met]

\* a loop body that takes every include statement for an edge, found or not
TopLevelChildAnyInclude(files, url, i, acc, n) ==
    IF ParseItem(n) # None
    THEN [acc EXCEPT !.root_items = Append(@, Item(url, <<i>>, 0, n.name))]
    ELSE IF IsIncludeKind(n.kind)
    THEN [acc EXCEPT !.includes = Append(@, Edge(n.path, <<i>>, FALSE))]
    ELSE acc

\* the body of for_each_child in gen_top_level_items, for the child n
TopLevelChild(files, url, i, acc, n) ==
    IF ParseItem(n) # None
    THEN [acc EXCEPT !.root_items = Append(@, Item(url, <<i>>, 0, n.name))]
    ELSE IF IsIncludeKind(n.kind) /\ IncludeTarget(files, n) # None
    THEN [acc EXCEPT !.includes = Append(@, Edge(n.path, <<i>>, FALSE))]
    ELSE acc

RECURSIVE TopLevelScan(_, _, _, _)
\* gen_top_level_items on a tree: the items and the include edges of the
\* children of the root, in order
TopLevelScan(files, url, i, acc) ==
    IF i > Len(Layout[url][<<>>].node.kids) THEN acc
    ELSE TopLevelScan(files, url, i + 1,
                      TopLevelChild(files, url, i, acc, Layout[url][<<i>>].node))

GenTopLevel(files, url) ==
    TopLevelScan(files, url, 1, [root_items |-> <<>>, includes |-> <<>>])

\* a document of the cache: resident or not, and its cached include edges
\* (None until gen_top_level_items ran; root_items is Some exactly then)
Absent == [loaded |-> FALSE, includes |-> None]

Fresh == [loaded |-> TRUE, includes |-> None]

\* the server during a request: the cache, the files, the include targets
\* that could not be read, and whether a borrow failed
Resolving(docs, files) ==
    [resident |-> docs, disk |-> files, failed |-> {}, panicked |-> FALSE]

\* get_code: a resident document, or the file read and cached
LoadTarget(s, url) ==
    IF s.resident[url].loaded THEN Outcome(s, TRUE)
    ELSE IF s.disk[url] = "ok"
    THEN Outcome([s EXCEPT !.resident[url] = Fresh], TRUE)
    ELSE Outcome([s EXCEPT !.failed = @ \cup {url}], FALSE)

\* gen_top_level_items_if_needed of a resident document
GenIfNeeded(s, url) ==
    IF s.resident[url].includes # None THEN s
    ELSE [s EXCEPT !.resident[url].includes = Some(GenTopLevel(s.disk, url).includes)]

\* the parameters of a declaration that the comparator accepts
ParamItems(url, at, params, names) ==
    Matching([k \in 1..Len(params) |-> Item(url, at, k, params[k])], names)

\* if node.kind().is_include_statement(): the target joins include_vec
MeetInclude(files, st, n) ==
    IF IsIncludeKind(n.kind) /\ IncludeTarget(files, n) # None
    THEN [st EXCEPT !.met = Append(@, Edge(n.path, st.node, TRUE))]
    ELSE st

\* match node.kind(): a declaration that ends after start_pos encloses the
\* start node
MarkEnclosing(st, here, root_end) ==
    IF here.node.kind \in Callables /\ here.end_byte > st.start_pos
    THEN [st EXCEPT !.should_process_param = TRUE, !.start_pos = root_end]
    ELSE st

\* if should_process_param: the parameters of a module or function item
PushParams(url, st, n, names) ==
    IF st.should_process_param /\ n.kind \in Callables
    THEN [st EXCEPT !.should_process_param = FALSE,
                    !.result = @ \o ParamItems(url, st.node, n.params, names)]
    ELSE st

\* if should_continue && comparator(&item.name)
PushItem(url, st, n, names, should_continue) ==
    IF should_continue /\ n.name \in names
    THEN [st EXCEPT !.result = Append(@, Item(url, st.node, 0, n.name))]
    ELSE st

\* if node.start_byte() < start_pos, if let Some(item) = Item::parse(..)
Collect(url, st, here, names, should_continue) ==
    IF here.start_byte < st.start_pos /\ ParseItem(here.node) # None
    THEN PushItem(url, PushParams(url, st, here.node, names), here.node, names,
                  should_continue)
    ELSE st

\* the body of the loop over a node and its preceding siblings
Visit(s, url, st, names, should_continue) ==
    Collect(url,
            MarkEnclosing(MeetInclude(s.disk, st, Layout[url][st.node].node),
                          Layout[url][st.node], Layout[url][<<>>].end_byte),
            Layout[url][st.node], names, should_continue)

\* if !should_continue || node.prev_sibling().is_none(): the parent, else the
\* preceding sibling
Advance(st, should_continue) ==
    IF ~should_continue \/ st.node[Len(st.node)] = 1
    THEN [st EXCEPT !.node = Parent(@)]
    ELSE [st EXCEPT !.node = PrevSibling(@)]

\* the last child of the parent of a node
LastSibling(url, at) == [at EXCEPT ![Len(at)] = Len(Layout[url][Parent(at)].node.kids)]

\* a walk that scans every child of each enclosing node: after the step to a
\* parent inside a block it goes on from the last sibling of that parent
FromLast(url, old, st) ==
    IF Len(st.node) < Len(old) /\ Len(st.node) >= 2
    THEN [st EXCEPT !.node = LastSibling(url, st.node)]
    ELSE st

RECURSIVE WalkEverySibling(_, _, _, _)
WalkEverySibling(s, url, st, names) ==
    IF st.node = <<>> THEN st
    ELSE WalkEverySibling(s, url,
              FromLast(url, st.node,
                       Advance(Visit(s, url, st, names, Len(st.node) >= 2),
                               Len(st.node) >= 2)),
              names)

RECURSIVE Walk(_, _, _, _)
\* while parent.is_some(), with should_continue = parent.parent().is_some()
Walk(s, url, st, names) ==
    IF st.node = <<>> THEN st
    ELSE Walk(s, url,
              Advance(Visit(s, url, st, names, Len(st.node) >= 2), Len(st.node) >= 2),
              names)

\* include_vec: the builtin document, code.includes, the statements of the walk
IncludeVec(builtin, cached, met) == builtin \o cached \o met

Found(s, result, include_vec) == [srv |-> s, result |-> result, include_vec |-> include_vec]

Retag(items, i) == [k \in 1..Len(items) |-> [items[k] EXCEPT !.via = i]]

\* if let Some(items) = &code.root_items: the items the comparator accepts
RootMatches(s, url, names) ==
    IF s.resident[url].includes = None THEN <<>>
    ELSE Matching(GenTopLevel(s.disk, url).root_items, names)

\* if let Some(incs) = &code.includes
CachedIncludes(s, url) ==
    IF s.resident[url].includes = None THEN <<>> ELSE s.resident[url].includes[2]

RECURSIVE find_identities(_, _, _, _, _, _, _), IncludeLoop(_, _, _, _, _, _, _)
\* a search that goes on to the end of the document and keeps its last match
IncludesAfterLast(s, own, include_vec, names, findall, borrowed) ==
    IF ~findall /\ own # <<>>
    THEN Found(s, <<own[Len(own)]>>, include_vec)
    ELSE IncludeLoop(s, include_vec, 1, own, names, findall, borrowed)

\* a search that returns every match of the document itself when findall is
\* false
IncludesAfterEvery(s, own, include_vec, names, findall, borrowed) ==
    IF ~findall /\ own # <<>>
    THEN Found(s, own, include_vec)
    ELSE IncludeLoop(s, include_vec, 1, own, names, findall, borrowed)

\* the first return with an item when findall is false, else the include loop
IncludesAfter(s, own, include_vec, names, findall, borrowed) ==
    IF ~findall /\ own # <<>>
    THEN Found(s, <<Head(own)>>, include_vec)
    ELSE IncludeLoop(s, include_vec, 1, own, names, findall, borrowed)

\* what follows the walk: the root items, then the includes
RootItemsAfter(s, url, walk, names, findall, inc_builtin, borrowed) ==
    IncludesAfter(s, walk.result \o RootMatches(s, url, names),
                  IncludeVec(IF inc_builtin THEN <<Edge(BUILTIN_PATH, <<>>, FALSE)>>
                                            ELSE <<>>,
                             CachedIncludes(s, url), walk.met),
                  names, findall, borrowed)

\* Server::find_identities; borrowed: the documents some caller holds a
\* borrow of
find_identities(s, url, start_node, names, findall, inc_builtin, borrowed) ==
    RootItemsAfter(s, url,
                   Walk(s, url,
                        [node |-> start_node,
                         start_pos |-> Layout[url][start_node].start_byte,
                         should_process_param |-> FALSE, result |-> <<>>, met |-> <<>>],
                        names),
                   names, findall, inc_builtin, borrowed)

\* result.extend(..) and the return when an item was found and findall is
\* false
Extend(sub, include_vec, i, result, names, findall, borrowed) ==
    IF sub.srv.panicked \/ (result \o sub.result # <<>> /\ ~findall)
    THEN Found(sub.srv, result \o Retag(sub.result, i), include_vec)
    ELSE IncludeLoop(sub.srv, include_vec, i + 1, result \o Retag(sub.result, i),
                     names, findall, borrowed)

\* the body of the include loop once get_code answered
Recurse(got, inc, include_vec, i, result, names, findall, borrowed) ==
    IF ~got.found THEN Found(got.srv, result, include_vec)
    ELSE IF inc \in borrowed
    THEN Found([got.srv EXCEPT !.panicked = TRUE], result, include_vec)
    ELSE Extend(find_identities(GenIfNeeded(got.srv, inc), inc, <<>>, names, findall,
                                FALSE, borrowed \cup {inc}),
                include_vec, i, result, names, findall, borrowed)

\* for inc in include_vec
IncludeLoop(s, include_vec, i, result, names, findall, borrowed) ==
    IF i > Len(include_vec) THEN Found(s, result, include_vec)
    ELSE Recurse(LoadTarget(s, include_vec[i].url), include_vec[i].url, include_vec, i,
                 result, names, findall, borrowed)

----------------------------------------------------------------------------
(* What the specifications record of the last handled message, and the    *)
(* values of the variables a specification does not use.                   *)

NoLast ==
    [op |-> "none", url |-> BUILTIN_PATH, found |-> FALSE, inserted |-> <<>>,
     evicted |-> <<>>, oldest |-> <<>>, before |-> None, panicked |-> FALSE]

NoAnswer ==
    [op |-> "none", url |-> BUILTIN_PATH, start_node |-> <<>>, names |-> {},
     findall |-> FALSE, result |-> <<>>, all |-> <<>>, include_vec |-> <<>>,
     failed |-> {}, panicked |-> FALSE]

IdleResolve ==
    /\ resident = <<>>
    /\ disk = <<>>
    /\ answer = NoAnswer

\* no call of get_include_url is followed
NoLookup ==
    [url |-> [base |-> FALSE, dir |-> 0], libs |-> <<>>, name |-> <<>>, files |-> {},
     returned |-> FALSE, result |-> None]

\* no rename request was handled
NoRename ==
    [doc |-> 0, found |-> FALSE, at |-> <<>>, new_name |-> "", responses |-> <<>>]

\* no document of the diagnostics specification is open
NoSession ==
    [op |-> "none", lines |-> None, batch |-> <<>>, published |-> <<>>, version |-> 0]

\* the documents of the main-loop specification
LoopDocs == {1, 2}

\* no message: the value of the last message before the first one
NoMessage ==
    [kind |-> "none", method |-> "", params_ok |-> TRUE, uri |-> 1,
     in_range |-> TRUE, readable |-> TRUE, fmt_ok |-> TRUE, fmt_size |-> 1]

\* the loop before the first message: no document is cached (text 0)
NoServing ==
    [running |-> TRUE, panicked |-> FALSE, codes |-> [d \in LoopDocs |-> 0],
     before |-> [d \in LoopDocs |-> 0], served |-> 0, last |-> NoMessage,
     action |-> "none", reply |-> "none"]

\* no syntax tree is under extraction
NoExtraction == [nodes |-> <<>>, root_items |-> None]

\* no format-document request has been handled
NoFormatting ==
    [handled |-> FALSE,
     before |-> [resident |-> FALSE, code |-> 0, changed |-> FALSE, has_items |-> FALSE],
     after |-> [resident |-> FALSE, code |-> 0, changed |-> FALSE, has_items |-> FALSE],
     run |-> [readable |-> TRUE, spawn |-> TRUE, write |-> TRUE, read |-> TRUE,
              status |-> 0, size |-> 0],
     responses |-> <<>>]

\* the configuration of a server that is not under configuration changes
NoConfig ==
    [library_locations |-> <<>>, ignore_default |-> FALSE, indent |-> None,
     query_file |-> None, fmt_query |-> None, handled |-> FALSE,
     malformed |-> FALSE,
     before |-> [library_locations |-> <<>>, ignore_default |-> FALSE,
                 indent |-> None, fmt_query |-> None]]

\* gen_top_level_items has not run
NoTopLevel == [url |-> 0 - 1, files |-> <<>>, root_items |-> <<>>, includes |-> <<>>]

\* the editor has not opened the document and the server has not cached it
NoSync == [editor |-> None, server |-> None, op |-> "none", panicked |-> FALSE]

NoLocated == [text |-> <<>>, pos |-> <<0, 0>>, offset |-> 0, asked |-> FALSE]

\* the document of the settings specification before the editor opens it
NoWorkspace ==
    [includes |-> None, changed |-> FALSE, snippet |-> None,
     last |-> [op |-> "none", included |-> FALSE, snippet |-> <<>>]]

\* no completion request was answered
NoCursor == [pos |-> <<0, 0>>, point |-> <<0, 0>>, panicked |-> FALSE, asked |-> FALSE]

IdleRest ==
    /\ lookup = NoLookup
    /\ renaming = NoRename
    /\ session = NoSession
    /\ extraction = NoExtraction
    /\ serving = NoServing
    /\ formatting = NoFormatting
    /\ config = NoConfig
    /\ toplevel = NoTopLevel
    /\ sync = NoSync
    /\ located = NoLocated
    /\ workspace = NoWorkspace
    /\ cursor = NoCursor

IdleCache ==
    /\ codes = <<>>
    /\ births = <<>>
    /\ opens = 0
    /\ touches = 0
    /\ last = NoLast

----------------------------------------------------------------------------
(* The edit specification: one open document and the change notifications  *)
(* the editor sends for it, each with a batch of at most two events.       *)

\* the log after an open notification for text t
NoLog(t) ==
    [op |-> "open", events |-> 0, allRanged |-> TRUE, hasFull |-> FALSE,
     rebased |-> FALSE, usedOldTree |-> FALSE, panicked |-> FALSE,
     input_edit |-> NoEdit, expected |-> t, event |-> NoEvent, before |-> <<>>,
     was_changed |-> FALSE, had_items |-> FALSE, regenerated |-> FALSE,
     replaced |-> FALSE, read_items |-> None, read_includes |-> None]

\* ParsedCode::new on the text of the open notification
InitEdit ==
    \E t \in AllTexts :
        /\ code = Encode(t)
        /\ tree = FullParse(Encode(t))
        /\ changed = TRUE
        /\ root_items = None
        /\ includes = None
        /\ log = NoLog(Encode(t))
        /\ IdleCache
        /\ IdleResolve
        /\ IdleRest

\* no single document is followed
IdleDocument ==
    /\ code = <<>>
    /\ tree = <<>>
    /\ changed = FALSE
    /\ root_items = None
    /\ includes = None
    /\ log = NoLog(<<>>)

\* the second of two ranged events has a start or an end whose byte offset in
\* the text left by the first differs from its byte offset in the text before
\* the batch
Rebased(text, batch) ==
    /\ Len(batch) = 2
    /\ batch[1].ranged
    /\ batch[2].ranged
    /\ \E after \in {EditLoop(LoopState(text, <<>>, TRUE, FALSE, FALSE), <<batch[1]>>).code} :
          \/ find_offset(after, batch[2].start[1], batch[2].start[2])
                # find_offset(text, batch[2].start[1], batch[2].start[2])
          \/ find_offset(after, batch[2].end[1], batch[2].end[2])
                # find_offset(text, batch[2].end[1], batch[2].end[2])

\* handle_did_change_text_document: pc.borrow_mut().edit(&params.content_changes)
DidChange(batch) ==
    \E st \in {EditLoop(LoopState(code, tree, TRUE, FALSE, FALSE), batch)} :
        /\ ~log.panicked
        /\ log' = [NoLog(Encode(RefApplyAll(Decode(code), batch))) EXCEPT
                   !.op = "edit",
                   !.events = Len(batch),
                   !.allRanged = \A i \in 1..Len(batch) : batch[i].ranged,
                   !.hasFull = \E i \in 1..Len(batch) : ~batch[i].ranged,
                   !.rebased = Rebased(code, batch),
                   !.usedOldTree = st.old_tree,
                   !.panicked = st.panicked,
                   !.input_edit = st.input_edit,
                   !.event = IF batch = <<>> THEN NoEvent ELSE batch[Len(batch)],
                   !.before = IF batch = <<>> THEN <<>>
                              ELSE RefApplyAll(Decode(code),
                                               SubSeq(batch, 1, Len(batch) - 1))]
        /\ UNCHANGED <<root_items, includes>>
        /\ UNCHANGED <<cacheVars, resolveVars, restVars>>
        /\ IF st.panicked
           THEN UNCHANGED <<code, tree, changed>>
           ELSE /\ code' = st.code
                /\ tree' = Reparse(st)
                /\ changed' = TRUE

\* what the editor holding s puts in the next slot of a batch
Slot(s, ended) == IF ended THEN {NoEvent} ELSE EventsFor(s) \cup {NoEvent}

After(s, ev) == IF ev = NoEvent THEN s ELSE RefApply(s, ev)

Batch(slots) == SelectSeq(slots, LAMBDA ev : ev # NoEvent)

\* a change notification whose batch is valid for the text the server holds
NextEdit ==
    \E s0 \in {Decode(code)} :
    \E e1 \in Slot(s0, FALSE) :
    \E e2 \in Slot(After(s0, e1), e1 = NoEvent) :
        DidChange(Batch(<<e1, e2>>))

SpecEdit == InitEdit /\ [][NextEdit]_vars

----------------------------------------------------------------------------
(* Properties of ParsedCode::edit *)

\* C1: after any batch of valid ranged events handled by ParsedCode::edit the
\* syntax tree equals the tree of a from-scratch parse of the text the server
\* holds
C1_IncrementalEqualsFromScratch ==
    (log.op = "edit" /\ log.allRanged) =>
        (~log.panicked /\ log.usedOldTree /\ tree = FullParse(code))

\* a batch of two ranged events was parsed incrementally
C1_Witness ==
    /\ log.op = "edit"
    /\ log.allRanged
    /\ log.events = 2
    /\ log.usedOldTree
    /\ Len(code) > 0

\* C2: the ranged events of a batch are applied in list order, each one's
\* positions converted against the text left by the events before it, so the
\* text after the batch is the sequential application of its events
C2_SequentialApplication ==
    (log.op = "edit" /\ log.allRanged) => (~log.panicked /\ code = log.expected)

\* a batch of two ranged events whose second event has other byte offsets in
\* the text left by the first than in the text before the batch
C2_Witness ==
    /\ log.op = "edit"
    /\ log.allRanged
    /\ log.rebased
    /\ code = log.expected

\* C3: a batch with a full-text event is parsed from scratch and leaves the
\* text that results from applying every event of the batch in list order
C3_FullReplacementBatch ==
    (log.op = "edit" /\ log.hasFull) =>
        (~log.usedOldTree /\ tree = FullParse(code) /\ code = log.expected)

----------------------------------------------------------------------------
(* The cached-items specification: one open document, change              *)
(* notifications with one event, and the handlers that read its caches.    *)

\* a handler that calls gen_top_level_items_if_needed on the document and
\* then reads root_items and includes
ReadCaches(handler) ==
    \E pc \in {gen_top_level_items_if_needed(Caches(tree, changed, root_items, includes))} :
        /\ ~log.panicked
        /\ changed' = pc.changed
        /\ root_items' = pc.root_items
        /\ includes' = pc.includes
        /\ log' = [NoLog(code) EXCEPT
                     !.op = handler,
                     !.was_changed = changed,
                     !.had_items = (root_items # None),
                     !.regenerated = (changed \/ root_items = None),
                     !.replaced = (root_items # pc.root_items \/ includes # pc.includes),
                     !.read_items = pc.root_items,
                     !.read_includes = pc.includes]
        /\ UNCHANGED <<code, tree>>
        /\ UNCHANGED <<cacheVars, resolveVars, restVars>>

\* request.rs: handle_hover
Hover == ReadCaches("hover")

\* request.rs: handle_definition
Definition == ReadCaches("definition")

\* request.rs: handle_completion
Completion == ReadCaches("completion")

\* request.rs: handle_document_symbols
DocumentSymbols == ReadCaches("document_symbols")

\* code_helper.rs: find_identities reaching the document as an include target
IncludeVisit == ReadCaches("include")

ReadOps == {"hover", "definition", "completion", "document_symbols", "include"}

\* a change notification with one event
DidChangeOne == \E ev \in EventsFor(Decode(code)) : DidChange(<<ev>>)

NextDirty ==
    \/ DidChangeOne
    \/ Hover
    \/ Definition
    \/ Completion
    \/ DocumentSymbols
    \/ IncludeVisit

SpecDirty == InitEdit /\ [][NextDirty]_vars

\* C4: what a handler or an include recursion reads from the caches was
\* extracted from the current tree: every edit sets the changed flag, a read
\* regenerates both caches exactly when the flag is set or there is no cache,
\* and caches with a clear flag are those of the current tree
C4_CachesFollowTree ==
    /\ (log.op = "edit" /\ ~log.panicked) => changed
    /\ log.op \in ReadOps =>
          /\ log.read_items = gen_top_level_items(tree).root_items
          /\ log.read_includes = gen_top_level_items(tree).includes
          /\ log.regenerated = (log.was_changed \/ ~log.had_items)
          /\ (log.replaced => log.regenerated)
    /\ ~changed =>
          /\ root_items = gen_top_level_items(tree).root_items
          /\ includes = gen_top_level_items(tree).includes

\* a read after an edit found caches of an older tree and replaced them
C4_Witness ==
    /\ log.op \in ReadOps
    /\ log.was_changed
    /\ log.had_items
    /\ log.replaced
    /\ log.read_items # Some(<<>>)

----------------------------------------------------------------------------
(* The cache specification: the server from its construction.  The editor  *)
(* opens one fresh file after the other; once QuietOpens files are open it *)
(* also re-opens, edits and queries the two oldest files.                  *)

\* Server::new: the builtin document is the first entry
NewServer == insert_code(Srv(<<>>), BUILTIN_PATH, BuiltinText)

InitCache ==
    /\ codes = NewServer.codes
    /\ births = NewServer.inserted
    /\ opens = 0
    /\ touches = 0
    /\ last = NoLast
    /\ IdleDocument
    /\ IdleResolve
    /\ IdleRest

\* the residents among the urls of a sequence
Residents(map, urls) == SelectSeq(urls, LAMBDA u : contains_key(map, u))

\* what a handler leaves: the map, the order of insertion of the residents
Handled(op, url, s, found) ==
    /\ last' = [op |-> op, url |-> url, found |-> found,
                inserted |-> s.inserted, evicted |-> s.evicted,
                oldest |-> SubSeq(births, 1, Len(s.evicted)),
                before |-> IF contains_key(codes, url)
                           THEN Some(MapGet(codes, url)) ELSE None,
                panicked |-> s.panicked]
    /\ IF s.panicked
       THEN UNCHANGED <<codes, births>>
       ELSE /\ codes' = s.codes
            /\ births' = Residents(s.codes,
                            SelectSeq(births, LAMBDA u : \A i \in 1..Len(s.inserted) :
                                                            s.inserted[i] # u)
                                \o s.inserted)
    /\ UNCHANGED <<editVars, resolveVars, restVars>>

\* handle_did_open_text_document
DidOpen(url, text) ==
    \E s \in {IF contains_key(codes, url) THEN Srv(codes)
              ELSE insert_code(Srv(codes), url, text)} :
        Handled("open", url, s, TRUE)

\* handle_did_change_text_document for a resident document
ChangeResident(url, batch) ==
    LET map == get_refresh(codes, url)
        pc  == MapGet(map, url)
        st  == EditLoop(LoopState(pc.code, pc.tree, TRUE, FALSE, FALSE), batch)
    IN  IF st.panicked THEN [Srv(map) EXCEPT !.panicked = TRUE]
        ELSE Srv(MapUpdate(map, url, [pc EXCEPT !.code = st.code,
                                                !.tree = Reparse(st),
                                                !.changed = TRUE]))

\* handle_did_change_text_document: an unknown document is logged and left
DidChangeIn(url, batch) ==
    \E s \in {IF contains_key(codes, url) THEN ChangeResident(url, batch) ELSE Srv(codes)} :
        Handled("change", url, s, contains_key(codes, url))

\* handle_hover, handle_definition, handle_completion; resolves: the cursor is
\* on an identifier that no enclosing scope declares, so that find_identities
\* goes through the builtin document and the include targets
Lookup(url, resolves, unc_paths) ==
    LET got == get_code(Srv(codes), url, unc_paths)
        gen == GenItemsOf(got.srv, url)
    IN  IF got.srv.panicked \/ ~got.found THEN got
        ELSE IF ~resolves THEN Outcome(gen, TRUE)
        ELSE Outcome(VisitIncludes(gen,
                        <<BUILTIN_PATH>> \o MapGet(gen.codes, url).includes[2],
                        {url}, unc_paths), TRUE)

\* the batches of the editor for a file it edits
BatchesFor(url) ==
    IF contains_key(codes, url)
    THEN {b \in {<<FullEvent(<<"x", "nl">>)>>, <<FullEvent(<<"m", "x">>)>>,
                 <<RangedEvent(<<0, 0>>, <<0, 1>>, <<"m">>)>>} :
            ValidFor(Decode(MapGet(codes, url).code), b[1])}
    ELSE {<<FullEvent(<<"x", "nl">>)>>}

Busy ==
    /\ ~last.panicked
    /\ opens >= QuietOpens
    /\ touches < MaxTouches
    /\ touches' = touches + 1
    /\ UNCHANGED opens

\* the editor opens the next file
OpenNext ==
    /\ ~last.panicked
    /\ opens < MaxFiles
    /\ DidOpen(opens + 1, OpenText)
    /\ opens' = opens + 1
    /\ UNCHANGED touches

\* the editor opens one of the oldest files again
Reopen ==
    \E url \in FocusFiles : \E text \in {OpenText, DiskText(2)} :
        Busy /\ DidOpen(url, text)

\* the editor changes one of the oldest files
Change ==
    \E url \in FocusFiles : \E batch \in BatchesFor(url) :
        Busy /\ DidChangeIn(url, batch)

\* a hover, definition or completion request in one of the oldest files
Resolve ==
    \E url \in FocusFiles : \E resolves \in BOOLEAN : \E unc_paths \in BOOLEAN :
    \E got \in {Lookup(url, resolves, unc_paths)} :
        Busy /\ Handled("lookup", url, got.srv, got.found)

\* handle_document_symbols for one of the oldest files
Symbols ==
    \E url \in FocusFiles : \E unc_paths \in BOOLEAN :
    \E got \in {Lookup(url, FALSE, unc_paths)} :
        Busy /\ Handled("document_symbols", url, got.srv, got.found)

NextCache ==
    \/ OpenNext
    \/ Reopen
    \/ Change
    \/ Resolve
    \/ Symbols

SpecCache == InitCache /\ [][NextCache]_vars

\* read_and_cache called for any of the oldest files, resident or not
Reload ==
    \E url \in FocusFiles : \E unc_paths \in BOOLEAN :
    \E got \in {read_and_cache(Srv(codes), url, unc_paths)} :
        Busy /\ Handled("read_and_cache", url, got.srv, got.found)

NextReload ==
    \/ NextCache
    \/ Reload

SpecReload == InitCache /\ [][NextReload]_vars

----------------------------------------------------------------------------
(* Properties of the document cache *)

\* C5: an insertion that finds more than CacheLimit documents evicts from the
\* front first, so the cache never holds more than CacheLimit + 1 documents
C5_CacheBounded == Len(codes) <= CacheLimit + 1

\* the cache is full and the last insertion evicted a document
C5_Witness ==
    /\ Len(codes) = CacheLimit + 1
    /\ last.evicted # <<>>
    /\ last.inserted # <<>>

Without(urls, gone) == SelectSeq(urls, LAMBDA u : \A i \in 1..Len(gone) : gone[i] # u)

\* the urls a handler moved to the back of the map: those it inserted, and
\* the document of a change notification
MovedBy(entry) ==
    IF entry.op = "change" /\ entry.found THEN <<entry.url>> ELSE entry.inserted

C7_ReloadFrame ==
    [][(last'.op = "read_and_cache" /\ last'.found /\ contains_key(codes, last'.url)) =>
          IF MapGet(codes, last'.url).code = DiskText(last'.url)
          THEN codes' = codes /\ last'.inserted = <<>> /\ last'.evicted = <<>>
          ELSE /\ MapGet(codes', last'.url) = NewParsedCode(last'.url, DiskText(last'.url))
               /\ last'.inserted = <<last'.url>>]_vars

\* a resident document with generated items was re-read with equal content
C7_Witness ==
    /\ last.op = "read_and_cache"
    /\ last.found
    /\ last.before # None
    /\ last.before[2].code = DiskText(last.url)
    /\ last.before[2].root_items # None
    /\ ~last.before[2].changed
    /\ MapGet(codes, last.url) = last.before[2]

----------------------------------------------------------------------------
(* The resolver specification: the editor opens and changes the main file  *)
(* and asks for hovers and completions in it, while a library file becomes *)
(* unreadable, disappears and comes back.                                  *)

\* Server::new: only the builtin document is resident
InitResolve ==
    /\ resident = [u \in Files |-> IF u = BUILTIN_PATH THEN Fresh ELSE Absent]
    /\ disk = [u \in Files |-> "ok"]
    /\ answer = NoAnswer
    /\ IdleDocument
    /\ IdleCache
    /\ IdleRest

Alive == ~answer.panicked

\* handle_did_open_text_document
Open ==
    /\ Alive
    /\ ~resident[MainFile].loaded
    /\ resident' = [resident EXCEPT ![MainFile] = Fresh]
    /\ answer' = [NoAnswer EXCEPT !.op = "open", !.url = MainFile]
    /\ UNCHANGED <<disk, editVars, cacheVars, restVars>>

\* handle_did_change_text_document with a change that leaves the syntax tree
\* as it is: changed is set, the caches are regenerated at the next read
Touch ==
    /\ Alive
    /\ resident[MainFile].loaded
    /\ resident[MainFile].includes # None
    /\ resident' = [resident EXCEPT ![MainFile] = Fresh]
    /\ answer' = [NoAnswer EXCEPT !.op = "change", !.url = MainFile]
    /\ UNCHANGED <<disk, editVars, cacheVars, restVars>>

\* a library file is overwritten with bytes that are no text, removed, or
\* written back
Disk ==
    \E url \in FlakyFiles : \E status \in {"ok", "bad", "gone"} :
        /\ Alive
        /\ disk[url] # status
        /\ disk' = [disk EXCEPT ![url] = status]
        /\ answer' = [NoAnswer EXCEPT !.op = "disk", !.url = url]
        /\ UNCHANGED <<resident, editVars, cacheVars, restVars>>

\* the leaves a request can point at: the identifiers of the arguments of a
\* call, the value of a function and the path of an include statement
RefPoints(url) ==
    {at \in Paths(url) :
        /\ at # <<>>
        /\ Layout[url][at].node.kids = <<>>
        /\ \/ /\ Layout[url][at].node.kind = "identifier"
              /\ \/ Layout[url][Parent(at)].node.kind = "arguments"
                 \/ /\ Layout[url][Parent(at)].node.kind = "function_declaration"
                    /\ at[Len(at)] = Len(Layout[url][Parent(at)].node.kids)
           \/ /\ Layout[url][at].node.kind = "include_path"
              /\ Layout[url][Parent(at)].node.kind = "use_statement"}

\* the leaves of the main file the editor points at
MainRefs == RefPoints(MainFile)

\* the names the declarations of the workspace have
Names ==
    {"x", "y", "z", "w", "m", "f", "p", "q", "b", "c", "d", "e", "cube", "size",
     "g", "h", "s", "o", "i", "r", "t", "u", "v", "j", "a"}

\* a request handler: get_code, gen_top_level_items_if_needed, a borrow of
\* the document, find_identities from the leaf under the cursor
RequestIn(url, op, start_node, names, findall) ==
    \E s \in {GenIfNeeded(Resolving(resident, disk), url)} :
    \E got \in {find_identities(s, url, start_node, names, findall, TRUE, {url})} :
    \E all \in {find_identities(s, url, start_node, names, TRUE, TRUE, {url})} :
        /\ Alive
        /\ resident[url].loaded
        /\ answer' = [op |-> op, url |-> url, start_node |-> start_node,
                      names |-> names, findall |-> findall, result |-> got.result,
                      all |-> all.result, include_vec |-> got.include_vec,
                      failed |-> got.srv.failed, panicked |-> got.srv.panicked]
        /\ resident' = IF got.srv.panicked THEN resident ELSE got.srv.resident
        /\ UNCHANGED <<disk, editVars, cacheVars, restVars>>

\* a request about the main file
Request(op, start_node, names, findall) ==
    RequestIn(MainFile, op, start_node, names, findall)

\* handle_hover, handle_definition: the first declaration of the identifier
\* under the cursor
HoverAt ==
    \E at \in MainRefs :
        /\ Layout[MainFile][at].node.kind = "identifier"
        /\ Request("hover", at, {Layout[MainFile][at].node.name}, FALSE)

\* handle_completion: every declaration visible from the cursor
CompletionAt ==
    \E at \in MainRefs : Request("completion", at, Names, TRUE)

\* find_identities called for every declaration of one name
FindAll ==
    \E at \in MainRefs : \E name \in {"x", "d", "b"} :
        Request("find_all", at, {name}, TRUE)

NextResolve ==
    \/ Open
    \/ Touch
    \/ Disk
    \/ HoverAt
    \/ CompletionAt
    \/ FindAll

SpecResolve == InitResolve /\ [][NextResolve]_vars

----------------------------------------------------------------------------
(* Properties of the scope resolver *)

FindOps == {"hover", "completion", "find_all"}

\* a file can be read or is in the cache already
Readable(url) == resident[url].loaded \/ disk[url] = "ok"

\* some entry of the result is the declaration `at` of document url
Returned(url, at) ==
    \E k \in 1..Len(answer.result) :
        /\ answer.result[k].url = url
        /\ answer.result[k].at = at
        /\ answer.result[k].param = 0

\* C8: when an include target cannot be read the call does not crash, and the
\* matches of every other include target of the list are still returned,
\* those listed before and those listed after the one that failed
C8_UnreadableIncludeSkipped ==
    (answer.op \in FindOps /\ answer.failed # {}) =>
        /\ ~answer.panicked
        /\ \A i \in 1..Len(answer.include_vec) :
              LET target == answer.include_vec[i].url
                  items == Matching(GenTopLevel(disk, target).root_items, answer.names)
              IN  (target \notin answer.failed /\ Readable(target) /\ items # <<>>) =>
                      IF answer.findall
                      THEN \A k \in 1..Len(items) : Returned(target, items[k].at)
                      ELSE answer.result # <<>>

\* the targets of the include edges of a document
EdgeTargets(url) ==
    LET edges == IF resident[url].includes # None THEN resident[url].includes[2]
                 ELSE GenTopLevel(disk, url).includes
    IN  {edges[i].url : i \in 1..Len(edges)}

RECURSIVE Reach(_, _)
Reach(urls, k) ==
    IF k = 0 THEN urls
    ELSE Reach(urls \cup UNION {EdgeTargets(u) : u \in urls}, k - 1)

\* the documents a document includes, directly or through other documents
Included(url) == Reach(EdgeTargets(url), Cardinality(Files))

Decl(url, at) == [url |-> url, at |-> at, name |-> NodeAt(Tree(url), at).name]

TopLevelDecls(url) ==
    {Decl(url, <<i>>) : i \in {i \in 1..Len(Tree(url).kids) : ParseItem(Tree(url).kids[i]) # None}}

\* the declarations that precede the reference in a block that encloses it
PrecedingDecls(url, ref) ==
    {Decl(url, at) : at \in
        {at \in Paths(url) :
            /\ Len(at) >= 2
            /\ Len(at) <= Len(ref)
            /\ Parent(at) = SubSeq(ref, 1, Len(at) - 1)
            /\ at[Len(at)] < ref[Len(at)]
            /\ NodeAt(Tree(url), Parent(at)).kind = "union_block"
            /\ ParseItem(NodeAt(Tree(url), at)) # None}}

Visible(url, ref) ==
    PrecedingDecls(url, ref) \cup TopLevelDecls(url)
        \cup UNION {TopLevelDecls(u) : u \in Included(url)}

Count(d) ==
    Cardinality({k \in 1..Len(answer.result) :
                    /\ answer.result[k].url = d.url
                    /\ answer.result[k].at = d.at
                    /\ answer.result[k].param = 0})

\* C9: a declaration that is visible from the reference and is the only
\* visible declaration of its name is returned exactly once by a collect-all
\* search for its name (stated for the searches in which every include
\* target was read)
C9_VisibleExactlyOnce ==
    (answer.op \in FindOps /\ answer.findall /\ ~answer.panicked /\ answer.failed = {}) =>
        \A d \in Visible(answer.url, answer.start_node) :
            (/\ answer.names = {d.name}
             /\ \A e \in Visible(answer.url, answer.start_node) : e.name = d.name => e = d)
                => Count(d) = 1

\* where a result was found: in a scope of the reference (a declaration below
\* the top level, or a parameter), among the top-level items, or in an include
Class(it) ==
    IF it.via # 0 THEN "include"
    ELSE IF it.param # 0 \/ Len(it.at) > 1 THEN "scope"
    ELSE "top"

\* scopes from the innermost outward, then the top-level items, then includes
ScopesTopIncludes(a, b) ==
    /\ Class(a) = "top" => Class(b) # "scope"
    /\ Class(a) = "include" => Class(b) = "include"
    /\ (Class(a) = "scope" /\ Class(b) = "scope") => Len(a.at) >= Len(b.at)

\* the first match is the first of all matches
FirstOfAll ==
    ~answer.findall =>
        answer.result = IF answer.all = <<>> THEN <<>> ELSE <<answer.all[1]>>

\* the statement of one include comes before the statement of the other
DeclaredBefore(e1, e2) ==
    \/ e1.stmt = <<>>
    \/ /\ e2.stmt # <<>>
       /\ start_byte(Tree(answer.url), e1.stmt) <= start_byte(Tree(answer.url), e2.stmt)

\* C10: results come innermost scope first, then outward, then the
\* top-level items, then the includes in the order of the include statements;
\* the first match is the first of them
C10_IncludesInDeclarationOrder ==
    answer.op \in FindOps =>
        /\ FirstOfAll
        /\ \A i \in 1..Len(answer.result) : \A j \in 1..Len(answer.result) :
              i < j =>
                /\ ScopesTopIncludes(answer.result[i], answer.result[j])
                /\ (Class(answer.result[i]) = "include" /\ Class(answer.result[j]) = "include")
                      => DeclaredBefore(answer.include_vec[answer.result[i].via],
                                        answer.include_vec[answer.result[j].via])

----------------------------------------------------------------------------
(* The include-cycle specification: the editor works on documents whose    *)
(* include statements lead back to the document itself.                    *)

\* the documents on an include cycle that the editor opens
CycleFiles == {6, 7, 8}

\* handle_did_open_text_document for a document on a cycle
OpenIn ==
    \E url \in CycleFiles :
        /\ Alive
        /\ ~resident[url].loaded
        /\ resident' = [resident EXCEPT ![url] = Fresh]
        /\ answer' = [NoAnswer EXCEPT !.op = "open", !.url = url]
        /\ UNCHANGED <<disk, editVars, cacheVars, restVars>>

\* handle_did_change_text_document with a change that leaves the tree as it is
TouchIn ==
    \E url \in CycleFiles :
        /\ Alive
        /\ resident[url].loaded
        /\ resident[url].includes # None
        /\ resident' = [resident EXCEPT ![url] = Fresh]
        /\ answer' = [NoAnswer EXCEPT !.op = "change", !.url = url]
        /\ UNCHANGED <<disk, editVars, cacheVars, restVars>>

\* handle_hover on an identifier of a document on a cycle
HoverIn ==
    \E url \in CycleFiles : \E at \in RefPoints(url) :
        /\ Layout[url][at].node.kind = "identifier"
        /\ RequestIn(url, "hover", at, {Layout[url][at].node.name}, FALSE)

\* handle_completion in a document on a cycle
CompletionIn ==
    \E url \in CycleFiles : \E at \in RefPoints(url) :
        RequestIn(url, "completion", at, Names, TRUE)

NextCycles ==
    \/ OpenIn
    \/ TouchIn
    \/ HoverIn
    \/ CompletionIn

SpecCycles == InitResolve /\ [][NextCycles]_vars

\* the declarations a search from the top level of a document can return:
\* the top-level declarations of the document and of the documents it
\* includes
Reachable(url) ==
    {d \in TopLevelDecls(url) \cup UNION {TopLevelDecls(u) : u \in Included(url)} :
        d.name \in answer.names}

\* C11: a search in a document whose includes lead back to it terminates
\* without a crash and returns the matches of the documents on the cycle: all
\* of them in collect-all mode, one of them in first-match mode
C11_CyclesTerminateWithResults ==
    (answer.op \in FindOps /\ answer.url \in CycleFiles) =>
        /\ ~answer.panicked
        /\ answer.findall => \A d \in Reachable(answer.url) : Returned(d.url, d.at)
        /\ ~answer.findall => (answer.result = <<>> <=> Reachable(answer.url) = {})

----------------------------------------------------------------------------
(* The include-path specification: one call of get_include_url, for every  *)
(* document location, list of search directories, path literal and set of  *)
(* existing files within the bounds.                                       *)

\* the directories of the file system
Dirs == {1, 2, 3}

\* the relative paths an include statement names (the empty path included)
PathNames == {<<>>, <<"a">>, <<"b">>}

\* a file url inside directory dir, or a directory url (a search directory)
FileUrl(dir) == [base |-> TRUE, dir |-> dir]

\* the url of a document that was never saved (untitled:Untitled-1): a url
\* that cannot be a base
Untitled == [base |-> FALSE, dir |-> 0]

\* the text of the path node of an include statement: <name>
Literal(name) == <<"<">> \o name \o <<">">>

RECURSIVE trim_start_matches(_, _)
\* str::trim_start_matches with a set of characters
trim_start_matches(text, chars) ==
    IF text # <<>> /\ Head(text) \in chars
    THEN trim_start_matches(Tail(text), chars)
    ELSE text

RECURSIVE trim_end_matches(_, _)
\* str::trim_end_matches with a set of characters
trim_end_matches(text, chars) ==
    IF text # <<>> /\ text[Len(text)] \in chars
    THEN trim_end_matches(SubSeq(text, 1, Len(text) - 1), chars)
    ELSE text

\* Url::join and Url::to_file_path: the file the path names relative to the
\* url, if the url can be a base
Join(url, path) ==
    IF url.base THEN Some([dir |-> url.dir, path |-> path]) ELSE None

RECURSIVE FirstExisting(_, _, _)
\* for url in urls: the first joined path that exists
FirstExisting(urls, include_path, files) ==
    IF urls = <<>> THEN None
    ELSE IF /\ Join(Head(urls), include_path) # None
            /\ Join(Head(urls), include_path)[2] \in files
    THEN Join(Head(urls), include_path)
    ELSE FirstExisting(Tail(urls), include_path, files)

\* the candidates when the search directories are tried before the
\* document's own location
LibsFirst(url, libs) == libs \o <<url>>

\* let mut urls = vec![&self.url]; urls.extend(libs.iter())
OwnThenLibs(url, libs) == <<url>> \o libs

\* ParsedCode::get_include_url, with the document's url, the search
\* directories and the file system as arguments
GetIncludeUrl(url, libs, text, files) ==
    IF trim_end_matches(trim_start_matches(text, {"<", "nl"}), {">", "nl"}) = <<>>
    THEN None
    ELSE FirstExisting(OwnThenLibs(url, libs),
                       trim_end_matches(trim_start_matches(text, {"<", "nl"}), {">", "nl"}),
                       files)

\* the lists of search directories: extend_libs registers each directory once
LibLists ==
    {<<>>} \cup {<<FileUrl(d)>> : d \in {2, 3}}
           \cup {<<FileUrl(2), FileUrl(3)>>, <<FileUrl(3), FileUrl(2)>>}

InitInclude ==
    /\ \E url \in {FileUrl(1), FileUrl(2), Untitled} :
       \E libs \in LibLists :
       \E name \in PathNames :
       \E files \in SUBSET {[dir |-> d, path |-> <<"a">>] : d \in Dirs} :
           lookup = [url |-> url, libs |-> libs, name |-> name, files |-> files,
                     returned |-> FALSE, result |-> None]
    /\ IdleDocument
    /\ IdleCache
    /\ IdleResolve
    /\ renaming = NoRename
    /\ session = NoSession
    /\ extraction = NoExtraction
    /\ serving = NoServing
    /\ formatting = NoFormatting
    /\ config = NoConfig
    /\ toplevel = NoTopLevel
    /\ sync = NoSync
    /\ located = NoLocated
    /\ workspace = NoWorkspace
    /\ cursor = NoCursor

\* the call for the path node of an include statement
ResolveInclude ==
    /\ ~lookup.returned
    /\ lookup' = [lookup EXCEPT
                    !.returned = TRUE,
                    !.result = GetIncludeUrl(lookup.url, lookup.libs,
                                             Literal(lookup.name), lookup.files)]
    /\ UNCHANGED <<editVars, cacheVars, resolveVars, renaming, session, extraction, serving, formatting, config, toplevel, sync, located, workspace, cursor>>

NextInclude == ResolveInclude

SpecInclude == InitInclude /\ [][NextInclude]_vars

\* the i-th candidate exists: the document's own location first, then the
\* search directories in registration order
CandidateExists(i) ==
    IF i = 1
    THEN lookup.url.base /\ [dir |-> lookup.url.dir, path |-> lookup.name] \in lookup.files
    ELSE [dir |-> lookup.libs[i - 1].dir, path |-> lookup.name] \in lookup.files

CandidateDir(i) == IF i = 1 THEN lookup.url.dir ELSE lookup.libs[i - 1].dir

\* C12: get_include_url returns the first candidate that exists, trying the
\* document's own location before the search directories in registration
\* order, and returns None when no candidate exists or the path is empty
C12_FirstExistingCandidate ==
    lookup.returned =>
        IF lookup.name = <<>> \/ \A i \in 1..(Len(lookup.libs) + 1) : ~CandidateExists(i)
        THEN lookup.result = None
        ELSE \E i \in 1..(Len(lookup.libs) + 1) :
                /\ CandidateExists(i)
                /\ \A j \in 1..(i - 1) : ~CandidateExists(j)
                /\ lookup.result = Some([dir |-> CandidateDir(i), path |-> lookup.name])

\* the file exists in the document's directory and in both search
\* directories, and the one in the document's directory was returned
C12_Witness ==
    /\ lookup.returned
    /\ Len(lookup.libs) = 2
    /\ lookup.url.base
    /\ \A i \in 1..3 : CandidateExists(i)
    /\ lookup.libs[1].dir # lookup.url.dir
    /\ lookup.result = Some([dir |-> lookup.url.dir, path |-> lookup.name])

----------------------------------------------------------------------------
(* The rename specification: rename requests at every leaf of a few        *)
(* documents.                                                              *)

\* the documents of the rename requests:
\*   1:  x = 1; module m() { x = 2; echo(x); } echo(x);
\*   2:  x = 1; module m() { echo(x); x = 2; }
\*   3:  x = 1; echo(x); module m() { echo(x); }
\*   4:  echo(x); module m() { x = 2; { echo(x); } }
RenameTree(doc) ==
    CASE doc = 1 ->
            Source(<<Assignment("x"),
                     Module("m", <<>>, <<Assignment("x"), Use("x")>>),
                     Use("x")>>)
      [] doc = 2 ->
            Source(<<Assignment("x"),
                     Module("m", <<>>, <<Use("x"), Assignment("x")>>)>>)
      [] doc = 3 ->
            Source(<<Assignment("x"), Use("x"),
                     Module("m", <<>>, <<Use("x")>>)>>)
      [] OTHER ->
            Source(<<Use("x"),
                     Module("m", <<>>, <<Assignment("x"), Block(<<Use("x")>>)>>)>>)

RenameDocs == {1, 2, 3, 4}

\* the nodes goto_first_child_for_point can end at: the leaves
Leaves(t) == {at \in PathsUnder(t, <<>>) : NodeAt(t, at).kids = <<>>}

ScopeKinds == {"source_file", "module_declaration", "union_block"}

RECURSIVE ScopeFrom(_, _, _)
\* the loop of find_node_scope for node `at`, with parent_scope at `cur`
ScopeFrom(t, at, cur) ==
    IF cur = <<>> THEN None
    ELSE IF NodeAt(t, Parent(cur)).kind \in ScopeKinds
    THEN IF NodeAt(t, Parent(at)).kind = "module_declaration"
         THEN ScopeFrom(t, Parent(cur), Parent(cur))
         ELSE Some(Parent(cur))
    ELSE ScopeFrom(t, at, Parent(cur))

\* a find_node_scope that answers with the whole document
find_node_scope_document(t, at) == Some(<<>>)

\* utils.rs: find_node_scope
find_node_scope(t, at) == ScopeFrom(t, at, at)

RECURSIVE Postorder(_, _), PostorderKids(_, _, _)
\* traverse(node.walk(), Order::Post): the nodes below `at`, children first
Postorder(t, at) == PostorderKids(t, at, 1) \o <<at>>

PostorderKids(t, at, i) ==
    IF i > Len(NodeAt(t, at).kids) THEN <<>>
    ELSE Postorder(t, Append(at, i)) \o PostorderKids(t, at, i + 1)

RECURSIVE SkipTo(_, _, _)
\* while node_iter.next().is_some_and(|next| scope != next) {}: the position
\* of the iterator afterwards
SkipTo(nodes, i, scope) ==
    IF i > Len(nodes) THEN i
    ELSE IF nodes[i] = scope THEN i + 1
    ELSE SkipTo(nodes, i + 1, scope)

\* TextEdit { range, new_text }
TextEdit(t, at, new_text) ==
    [at |-> at, start |-> start_byte(t, at), end |-> end_byte(t, at),
     new_text |-> new_text]

\* is_assignment && node != ident_initial_node
is_assignment_in_subscope(t, at, initial) ==
    NodeAt(t, Parent(at)).kind = "assignment" /\ at # initial

RECURSIVE RenameLoop(_, _, _, _, _, _, _)
\* while let Some(node) = node_iter.next()
RenameLoop(t, nodes, i, name, initial, new_name, changes) ==
    IF i > Len(nodes) THEN changes
    ELSE IF NodeAt(t, nodes[i]).kind # "identifier" \/ NodeAt(t, nodes[i]).name # name
    THEN RenameLoop(t, nodes, i + 1, name, initial, new_name, changes)
    ELSE IF is_assignment_in_subscope(t, nodes[i], initial)
    THEN RenameLoop(t, nodes, SkipTo(nodes, i + 1, find_node_scope(t, nodes[i])[2]),
                    name, initial, new_name, changes)
    ELSE RenameLoop(t, nodes, i + 1, name, initial, new_name,
                    Append(changes, TextEdit(t, nodes[i], new_name)))

\* Response with error -32600; respond puts a null result in it
InvalidRequest == [result |-> None, keys |-> <<>>, error |-> 0 - 32600]

\* Response with the WorkspaceEdit: h.insert(uri, changes), the keys of the
\* map and the edits of its one entry
WorkspaceEdit(uri, changes) == [result |-> Some(changes), keys |-> <<uri>>, error |-> 0]

\* handle_rename without the check of the node's kind
handle_rename_any_node(found, uri, t, at, new_name) ==
    IF ~found THEN <<>>
    ELSE <<WorkspaceEdit(uri, RenameLoop(t, Postorder(t, find_node_scope(t, at)[2]), 1,
                                    NodeAt(t, at).name, at, new_name, <<>>))>>

\* Server::handle_rename: the responses it sends; found: get_code returned
\* the document
handle_rename(found, uri, t, at, new_name) ==
    IF ~found THEN <<>>
    ELSE IF NodeAt(t, at).kind # "identifier"
    THEN <<InvalidRequest>>
    ELSE <<WorkspaceEdit(uri, RenameLoop(t, Postorder(t, find_node_scope(t, at)[2]), 1,
                                    NodeAt(t, at).name, at, new_name, <<>>))>>

InitRename ==
    /\ renaming = NoRename
    /\ lookup = NoLookup
    /\ session = NoSession
    /\ extraction = NoExtraction
    /\ serving = NoServing
    /\ formatting = NoFormatting
    /\ config = NoConfig
    /\ toplevel = NoTopLevel
    /\ sync = NoSync
    /\ located = NoLocated
    /\ workspace = NoWorkspace
    /\ cursor = NoCursor
    /\ IdleDocument
    /\ IdleCache
    /\ IdleResolve

\* a rename request at a leaf of a document that is in the cache or can be
\* read, or for a document that is neither
Rename ==
    \E doc \in RenameDocs : \E at \in Leaves(RenameTree(doc)) :
    \E new_name \in {"n", "nn"} : \E found \in BOOLEAN :
        /\ renaming' = [doc |-> doc, found |-> found, at |-> at, new_name |-> new_name,
                        responses |-> handle_rename(found, doc, RenameTree(doc), at,
                                                    new_name)]
        /\ UNCHANGED <<editVars, cacheVars, resolveVars, lookup, session, extraction, serving, formatting, config, toplevel, sync, located, workspace, cursor>>

NextRename == Rename

SpecRename == InitRename /\ [][NextRename]_vars

----------------------------------------------------------------------------
(* Properties of rename *)

RenamedTree == RenameTree(renaming.doc)

\* the request was handled and the reference is an identifier
RenamedIdentifier ==
    /\ renaming.found
    /\ NodeAt(RenamedTree, renaming.at).kind = "identifier"

\* the edits of the response
Edits ==
    IF renaming.responses = <<>> \/ renaming.responses[1].result = None THEN <<>>
    ELSE renaming.responses[1].result[2]

Edited(at) == \E k \in 1..Len(Edits) : Edits[k].at = at

\* p is a proper ancestor of at
Above(p, at) == Len(p) < Len(at) /\ SubSeq(at, 1, Len(p)) = p

\* the identifier on the left of an assignment
IsDeclaration(t, at) ==
    /\ NodeAt(t, at).kind = "identifier"
    /\ NodeAt(t, Parent(at)).kind = "assignment"
    /\ at[Len(at)] = 1

\* the blocks that bound a scope: the document and the blocks in it
IsBlock(t, p) == NodeAt(t, p).kind \in {"source_file", "union_block"}

\* the innermost block around a node
BlockOf(t, at) ==
    CHOOSE p \in PathsUnder(t, <<>>) :
        /\ IsBlock(t, p)
        /\ Above(p, at)
        /\ \A q \in PathsUnder(t, <<>>) : (IsBlock(t, q) /\ Above(q, at)) => Len(q) <= Len(p)

\* the bodies of the modules of a document
ModuleBodies(t) ==
    {p \in PathsUnder(t, <<>>) \ {<<>>} :
        NodeAt(t, p).kind = "union_block" /\ NodeAt(t, Parent(p)).kind = "module_declaration"}

\* the block declares the name by an assignment of its own
Declares(t, p, name) ==
    \E at \in PathsUnder(t, <<>>) :
        IsDeclaration(t, at) /\ NodeAt(t, at).name = name /\ BlockOf(t, at) = p

\* C13: renaming a declaration leaves every occurrence inside a nested
\* module body that redeclares the name untouched, and renaming the
\* declaration inside a module body leaves everything outside that body
\* untouched
C13_RenameRespectsShadowing ==
    (RenamedIdentifier /\ IsDeclaration(RenamedTree, renaming.at)) =>
        /\ \A b \in ModuleBodies(RenamedTree) :
              (/\ Above(BlockOf(RenamedTree, renaming.at), b)
               /\ Declares(RenamedTree, b, NodeAt(RenamedTree, renaming.at).name))
                 => \A k \in 1..Len(Edits) : ~Above(b, Edits[k].at)
        /\ BlockOf(RenamedTree, renaming.at) \in ModuleBodies(RenamedTree)
              => \A k \in 1..Len(Edits) : Above(BlockOf(RenamedTree, renaming.at), Edits[k].at)

\* an occurrence of the name lies under a redeclaration of it: in a block
\* inside the scope of the reference that declares the name
Shadowed(t, at, scope, name) ==
    \E p \in PathsUnder(t, <<>>) :
        /\ IsBlock(t, p)
        /\ Above(scope, p)
        /\ Above(p, at)
        /\ Declares(t, p, name)

\* C14: a rename from any occurrence of a name replaces every identifier of
\* that name in the scope of the reference that is neither a shadowing
\* redeclaration nor under one, the declaration of the name included
C14_RenameReplacesAllOccurrences ==
    RenamedIdentifier =>
        \A at \in PathsUnder(RenamedTree, <<>>) :
            (/\ NodeAt(RenamedTree, at).kind = "identifier"
             /\ NodeAt(RenamedTree, at).name = NodeAt(RenamedTree, renaming.at).name
             /\ Above(BlockOf(RenamedTree, renaming.at), at)
             /\ ~Shadowed(RenamedTree, at, BlockOf(RenamedTree, renaming.at),
                          NodeAt(RenamedTree, renaming.at).name))
                => Edited(at)

\* C15: a rename request at a node that is not an identifier is answered by
\* exactly one response, which carries error -32600 and no edits
C15_RenameOffIdentifierIsInvalid ==
    (renaming.found /\ NodeAt(RenamedTree, renaming.at).kind # "identifier") =>
        /\ Len(renaming.responses) = 1
        /\ renaming.responses[1].error = 0 - 32600
        /\ renaming.responses[1].result = None

\* a rename request on a token was answered with the error
C15_Witness ==
    /\ renaming.found
    /\ NodeAt(RenamedTree, renaming.at).kind = "token"
    /\ renaming.responses[1].error = 0 - 32600

----------------------------------------------------------------------------
(* The diagnostics specification: one document, written as one top-level    *)
(* statement per line, is opened and changed; the server's notifications    *)
(* are recorded.  A statement is a declaration, an include statement whose  *)
(* file exists, an include statement whose file exists nowhere, text that   *)
(* does not parse (an ERROR node), or a statement the parser completed with *)
(* a missing `;` (a MISSING node).                                          *)

Statements == {"decl", "include_found", "include_missing", "error", "missing"}

\* the versions the editor gives its change notifications
MaxVersion == 2

\* the longest document, in lines
MaxLines == 2

\* the documents of the specification
Documents == UNION {[1..n -> Statements] : n \in 1..MaxLines}

\* TextDocumentContentChangeEvent with a range: the statement of one line is
\* replaced
RangedChange(line, text) == [ranged |-> TRUE, line |-> line, text |-> <<text>>]

\* TextDocumentContentChangeEvent without a range: the whole text is replaced
FullChange(lines) == [ranged |-> FALSE, line |-> 0, text |-> lines]

RECURSIVE EditLines(_, _, _)
\* ParsedCode::edit on the lines: the ranged events in list order, up to and
\* with the first event that has no range
EditLines(lines, batch, i) ==
    IF i > Len(batch) THEN lines
    ELSE IF batch[i].ranged
    THEN EditLines([lines EXCEPT ![batch[i].line] = batch[i].text[1]], batch, i + 1)
    ELSE batch[i].text

\* a Diagnostic: its message and the line and the part of the statement it
\* is ranged on
Diagnostic(message, line, part) ==
    [message |-> message, line |-> line, part |-> part, severity |-> "ERROR"]

RECURSIVE ErrorDiagnosticsOneMessage(_, _)
\* a diagnostic pass with one message for every node
ErrorDiagnosticsOneMessage(lines, i) ==
    IF i > Len(lines) THEN <<>>
    ELSE (IF lines[i] \in {"error", "missing"}
          THEN <<Diagnostic("syntax error", i, "node")>> ELSE <<>>)
         \o ErrorDiagnosticsOneMessage(lines, i + 1)

RECURSIVE ErrorDiagnostics(_, _)
\* error_nodes(..).map(..): one diagnostic for each node that is an error or
\* is missing
ErrorDiagnostics(lines, i) ==
    IF i > Len(lines) THEN <<>>
    ELSE (IF lines[i] = "error" THEN <<Diagnostic("syntax error", i, "node")>>
          ELSE IF lines[i] = "missing" THEN <<Diagnostic("missing ;", i, "node")>>
          ELSE <<>>)
         \o ErrorDiagnostics(lines, i + 1)

\* if content_changes.len() == 1, if let Some(range): the statement at the
\* start of the range, if it is an include statement with no url
IncludeDiagnostics(lines, batch) ==
    IF /\ Len(batch) = 1
       /\ batch[1].ranged
       /\ batch[1].line <= Len(lines)
       /\ lines[batch[1].line] = "include_missing"
    THEN <<Diagnostic("file not found!", batch[1].line, "path")>>
    ELSE <<>>

\* PublishDiagnosticsParams
Publish(uri, version, diagnostics) ==
    [uri |-> uri, version |-> version, diagnostics |-> diagnostics]

\* the document of the specification
SessionUri == BUILTIN_PATH + 1

InitDiagnostics ==
    /\ session = NoSession
    /\ lookup = NoLookup
    /\ renaming = NoRename
    /\ extraction = NoExtraction
    /\ serving = NoServing
    /\ formatting = NoFormatting
    /\ config = NoConfig
    /\ toplevel = NoTopLevel
    /\ sync = NoSync
    /\ located = NoLocated
    /\ workspace = NoWorkspace
    /\ cursor = NoCursor
    /\ IdleDocument
    /\ IdleCache
    /\ IdleResolve

\* handle_did_open_text_document: the document enters the cache
OpenDocument ==
    \E lines \in Documents :
        /\ session' = IF session.lines # None
                       THEN [session EXCEPT !.op = "open", !.batch = <<>>,
                                            !.published = <<>>]
                       ELSE [op |-> "open", lines |-> Some(lines), batch |-> <<>>,
                             published |-> <<>>, version |-> 0]
        /\ UNCHANGED <<editVars, cacheVars, resolveVars, lookup, renaming, extraction, serving, formatting, config, toplevel, sync, located, workspace, cursor>>

\* handle_did_change_text_document
ChangeDocument(batch, version) ==
    /\ session' =
          IF session.lines = None
          THEN [session EXCEPT !.op = "change", !.batch = batch, !.published = <<>>,
                               !.version = version]
          ELSE [op |-> "change",
                lines |-> Some(EditLines(session.lines[2], batch, 1)),
                batch |-> batch,
                version |-> version,
                published |->
                    <<Publish(SessionUri, version,
                              ErrorDiagnostics(EditLines(session.lines[2], batch, 1), 1)
                              \o IncludeDiagnostics(EditLines(session.lines[2], batch, 1),
                                                    batch))>>]
    /\ UNCHANGED <<editVars, cacheVars, resolveVars, lookup, renaming, extraction, serving, formatting, config, toplevel, sync, located, workspace, cursor>>

\* the events an editor can send for a document of n lines
ChangesFor(n) ==
    {RangedChange(k, st) : k \in 1..n, st \in Statements}
        \cup {FullChange(lines) : lines \in Documents}

\* the number of lines after an event
LinesAfter(n, ev) == IF ev.ranged THEN n ELSE Len(ev.text)

\* a change notification with one event
ChangeOne ==
    /\ session.lines # None
    /\ \E ev \in ChangesFor(Len(session.lines[2])) : \E version \in 1..MaxVersion :
          ChangeDocument(<<ev>>, version)

\* a change notification with two events
ChangeTwo ==
    /\ session.lines # None
    /\ \E e1 \in ChangesFor(Len(session.lines[2])) :
       \E e2 \in ChangesFor(LinesAfter(Len(session.lines[2]), e1)) :
           ChangeDocument(<<e1, e2>>, MaxVersion)

\* a change notification for a document the server does not have
ChangeUnknown ==
    /\ session.lines = None
    /\ \E version \in 1..MaxVersion : ChangeDocument(<<RangedChange(1, "decl")>>, version)

NextDiagnostics ==
    \/ OpenDocument
    \/ ChangeOne
    \/ ChangeTwo
    \/ ChangeUnknown

SpecDiagnostics == InitDiagnostics /\ [][NextDiagnostics]_vars

\* the 'file not found' diagnostics of the notifications of the last message
NotFound ==
    IF session.published = <<>> THEN <<>>
    ELSE SelectSeq(session.published[1].diagnostics,
                   LAMBDA d : d.message = "file not found!")

MissingLines == {i \in 1..Len(session.lines[2]) : session.lines[2][i] = "include_missing"}

\* C16: after the open notification of a document with one include statement
\* whose file does not exist, the server has published exactly one
\* diagnostic, ranged on the path of that statement
C16_OpenPublishesIncludeDiagnostic ==
    (session.op = "open" /\ session.lines # None /\ Cardinality(MissingLines) = 1) =>
        /\ Len(session.published) = 1
        /\ Len(session.published[1].diagnostics) = 1
        /\ session.published[1].diagnostics[1].message = "file not found!"
        /\ session.published[1].diagnostics[1].line \in MissingLines
        /\ session.published[1].diagnostics[1].part = "path"

\* C17: after a change notification for a resident document the published
\* diagnostics hold one 'file not found' diagnostic, ranged on the path, for
\* each include statement of the document whose file exists nowhere
C17_ChangePublishesAllIncludeDiagnostics ==
    (session.op = "change" /\ session.lines # None) =>
        /\ Len(session.published) = 1
        /\ \A i \in MissingLines :
              Cardinality({k \in 1..Len(NotFound) : NotFound[k].line = i}) = 1
        /\ \A k \in 1..Len(NotFound) :
              NotFound[k].line \in MissingLines /\ NotFound[k].part = "path"

----------------------------------------------------------------------------
(* The doc-string specification: the top-level nodes of a syntax tree, each *)
(* a comment, a declaration (a node Item::parse accepts) or another         *)
(* statement, with the rows it starts and ends on; gen_top_level_items      *)
(* walks them and builds the items with their doc strings.  A doc string is *)
(* a sequence of pieces: the text of a comment, raw or with its comment     *)
(* markers removed, and the separators pushed between them.                 *)

\* the last row of a document
MaxRow == 2

\* the most top-level nodes of a document
MaxNodes == 3

NodeKinds == {"comment", "decl", "other"}

TopNodes ==
    {[kind |-> k, start |-> a, end |-> b] :
        k \in NodeKinds, a \in 0..MaxRow, b \in 0..MaxRow}

\* the children of the root in source order: a node ends on or after the row
\* it starts on and starts on or after the row its predecessor ends on
SourceFiles ==
    {ns \in UNION {[1..n -> TopNodes] : n \in 1..MaxNodes} :
        /\ \A i \in 1..Len(ns) : ns[i].start <= ns[i].end
        /\ \A i \in 1..(Len(ns) - 1) : ns[i].end <= ns[i + 1].start}

\* node_text(&self.code, node) of a comment node
Raw(i) == [t |-> "raw", of |-> i]

\* the text of a comment node without its comment markers
Stripped(i) == [t |-> "doc", of |-> i]

\* push('\n')
Newline == [t |-> "\n", of |-> 0]

\* push_str("  \n")
Break == [t |-> "  \n", of |-> 0]

\* extract_doc for a document that is not the builtin one: DOC_RE removes the
\* comment markers of every line
extract_doc(doc) ==
    [k \in 1..Len(doc) |-> IF doc[k].t = "raw" THEN Stripped(doc[k].of) ELSE doc[k]]

\* the variables of the loop before the first child
DocStart == [ret |-> <<>>, doc |-> None, doc_node |-> 0, last_code_line |-> 0]

\* last_code_line > 0 && node.start_position().row == last_code_line
Trails(nodes, st, i) ==
    st.last_code_line > 0 /\ nodes[i].start = st.last_code_line

\* the comment is appended to the doc of the last item; doc and doc_node stay
AppendToLast(st, i) ==
    [st EXCEPT !.ret[Len(st.ret)].doc =
        Some((IF st.ret[Len(st.ret)].doc = None THEN <<>>
              ELSE st.ret[Len(st.ret)].doc[2])
             \o <<Break>> \o extract_doc(<<Raw(i)>>))]

\* the comment joins the doc kept for the next item, or starts it anew
KeepForNext(nodes, st, i) ==
    IF st.doc_node # 0 /\ nodes[i].end - nodes[st.doc_node].end <= 1
    THEN [st EXCEPT !.doc = IF st.doc = None THEN None
                            ELSE Some(st.doc[2] \o <<Newline, Raw(i)>>),
                    !.doc_node = i]
    ELSE [st EXCEPT !.doc = Some(<<Raw(i)>>), !.doc_node = i]

\* if kind.is_comment()
CommentNode(nodes, st, i) ==
    IF Trails(nodes, st, i) THEN AppendToLast(st, i) ELSE KeepForNext(nodes, st, i)

\* else: Item::parse, item.doc = doc.map(extract_doc), last_code_line;
\* doc = None; doc_node = None
CodeNode(nodes, st, i) ==
    IF nodes[i].kind = "decl"
    THEN [ret |-> Append(st.ret,
                         [node |-> i,
                          doc |-> IF st.doc = None THEN None
                                  ELSE Some(extract_doc(st.doc[2]))]),
          doc |-> None, doc_node |-> 0, last_code_line |-> nodes[i].start]
    ELSE [st EXCEPT !.doc = None, !.doc_node = 0]

RECURSIVE DocLoop(_, _, _)
\* for_each_child(&mut cursor, ..)
DocLoop(nodes, st, i) ==
    IF i > Len(nodes) THEN st.ret
    ELSE DocLoop(nodes,
                 IF nodes[i].kind = "comment" THEN CommentNode(nodes, st, i)
                 ELSE CodeNode(nodes, st, i),
                 i + 1)

InitDocs ==
    /\ extraction \in {[nodes |-> ns, root_items |-> None] : ns \in SourceFiles}
    /\ lookup = NoLookup
    /\ renaming = NoRename
    /\ session = NoSession
    /\ serving = NoServing
    /\ formatting = NoFormatting
    /\ config = NoConfig
    /\ toplevel = NoTopLevel
    /\ sync = NoSync
    /\ located = NoLocated
    /\ workspace = NoWorkspace
    /\ cursor = NoCursor
    /\ IdleDocument
    /\ IdleCache
    /\ IdleResolve

\* gen_top_level_items on a tree that has no items yet
GenTopLevelItems ==
    /\ extraction.root_items = None
    /\ extraction' = [extraction EXCEPT
                         !.root_items = Some(DocLoop(extraction.nodes, DocStart, 1))]
    /\ UNCHANGED <<editVars, cacheVars, resolveVars, lookup, renaming, session, serving, formatting, config, toplevel, sync, located, workspace, cursor>>

NextDocs == GenTopLevelItems

SpecDocs == InitDocs /\ [][NextDocs]_vars

\* the items extracted
Extracted == extraction.root_items[2]

\* the doc string of the item holds the text of comment c
InDoc(item, c) ==
    item.doc # None /\ \E k \in 1..Len(item.doc[2]) : item.doc[2][k].of = c

\* the item of the declaration at node n
ItemOf(n) == CHOOSE k \in 1..Len(Extracted) : Extracted[k].node = n

C19_TrailingCommentJoinsPrecedingDeclaration ==
    extraction.root_items # None =>
        \A c \in 2..Len(extraction.nodes) :
            (/\ extraction.nodes[c].kind = "comment"
             /\ extraction.nodes[c - 1].kind = "decl"
             /\ extraction.nodes[c].start = extraction.nodes[c - 1].end)
                => /\ InDoc(Extracted[ItemOf(c - 1)], c)
                   /\ \A k \in 1..Len(Extracted) :
                         Extracted[k].node > c => ~InDoc(Extracted[k], c)

----------------------------------------------------------------------------
(* The main-loop specification: main_loop receives one message after the   *)
(* other and hands it to handle_message.  A document of the cache is 0 when *)
(* absent and otherwise the number of its text.                            *)

\* the most messages a run receives
MaxMessages == 3

RequestMethods ==
    {"shutdown", "textDocument/hover", "textDocument/completion",
     "textDocument/definition", "textDocument/documentSymbol",
     "textDocument/formatting", "textDocument/prepareRename",
     "textDocument/rename", "unknown"}

NotificationMethods ==
    {"textDocument/didOpen", "textDocument/didChange", "textDocument/didSave",
     "textDocument/didClose", "workspace/didChangeConfiguration", "unknown"}

\* Message::Request: params_ok is whether the params deserialize, readable
\* whether the file of the url can be read, fmt_ok whether the formatter runs,
\* fmt_size the number of bytes it writes
Requests ==
    {[kind |-> "request", method |-> me, params_ok |-> ok, uri |-> d,
      in_range |-> TRUE, readable |-> rd, fmt_ok |-> f, fmt_size |-> sz] :
        me \in RequestMethods, ok \in BOOLEAN, d \in LoopDocs,
        rd \in BOOLEAN, f \in BOOLEAN, sz \in {0, 1}}

\* Message::Notification: in_range is whether the positions of the change
\* events lie in the text
Notifications ==
    {[kind |-> "notification", method |-> me, params_ok |-> ok, uri |-> d,
      in_range |-> ir, readable |-> TRUE, fmt_ok |-> TRUE, fmt_size |-> 1] :
        me \in NotificationMethods, ok \in BOOLEAN, d \in LoopDocs,
        ir \in BOOLEAN}

\* Message::Response
Responses == {[NoMessage EXCEPT !.kind = "response"]}

\* Ok(LoopAction::Continue), with the cache the handler leaves
Continue(srv, codes_after, reply) ==
    [srv EXCEPT !.codes = codes_after, !.action = "Continue", !.reply = reply]

\* Ok(LoopAction::Exit): main_loop breaks
Exit(srv) == [srv EXCEPT !.running = FALSE, !.action = "Exit"]

\* a panic of the handler ends the process
Panic(srv) == [srv EXCEPT !.running = FALSE, !.panicked = TRUE, !.action = "panic"]

\* get_code: a cached document, or the file read and cached
GetCodeFor(srv, msg) ==
    IF srv.codes[msg.uri] = 0 /\ msg.readable
    THEN [srv.codes EXCEPT ![msg.uri] = 1]
    ELSE srv.codes

\* the request handlers: each asks get_code for the document and returns
\* without a response when there is none; handle_formatting answers a
\* formatter that cannot be run with an internal error
handle_request(srv, msg) ==
    IF GetCodeFor(srv, msg)[msg.uri] = 0
    THEN Continue(srv, GetCodeFor(srv, msg), "none")
    ELSE IF msg.method = "textDocument/formatting" /\ ~msg.fmt_ok
    THEN Continue(srv, GetCodeFor(srv, msg), "error")
    ELSE IF msg.method = "textDocument/formatting" /\ msg.fmt_size = 0
    THEN Continue(srv, GetCodeFor(srv, msg), "none")
    ELSE Continue(srv, GetCodeFor(srv, msg), "result")

\* handle_did_open_text_document
handle_did_open(srv, msg) ==
    IF srv.codes[msg.uri] # 0 THEN Continue(srv, srv.codes, "none")
    ELSE Continue(srv, [srv.codes EXCEPT ![msg.uri] = 1], "none")

\* handle_did_change_text_document: unknown document, or ParsedCode::edit,
\* whose find_offset(..).unwrap() panics on a position outside the text
handle_did_change(srv, msg) ==
    IF srv.codes[msg.uri] = 0 THEN Continue(srv, srv.codes, "none")
    ELSE IF ~msg.in_range THEN Panic(srv)
    ELSE Continue(srv, [srv.codes EXCEPT ![msg.uri] = 3 - srv.codes[msg.uri]],
                  "diagnostics")

\* proc_req!: ExtractError::JsonError returns Continue
proc_req(srv, msg) ==
    IF msg.params_ok THEN handle_request(srv, msg)
    ELSE Continue(srv, srv.codes, "none")

\* proc!: ExtractError::JsonError returns Exit
proc(srv, msg) ==
    IF ~msg.params_ok THEN Exit(srv)
    ELSE IF msg.method = "textDocument/didOpen" THEN handle_did_open(srv, msg)
    ELSE IF msg.method = "textDocument/didChange" THEN handle_did_change(srv, msg)
    ELSE Continue(srv, srv.codes, "none")

\* handle_message
handle_message(srv, msg) ==
    IF msg.kind = "request"
    THEN IF msg.method = "shutdown" THEN Exit(srv)
         ELSE IF msg.method = "unknown" THEN Continue(srv, srv.codes, "none")
         ELSE proc_req(srv, msg)
    ELSE IF msg.kind = "notification"
    THEN IF msg.method = "unknown" THEN Continue(srv, srv.codes, "none")
         ELSE proc(srv, msg)
    ELSE Continue(srv, srv.codes, "none")

\* while let Ok(msg) = self.connection.receiver.recv()
Receive(msg) ==
    /\ serving.running
    /\ serving.served < MaxMessages
    /\ serving' = handle_message([serving EXCEPT !.served = @ + 1, !.last = msg,
                                                 !.before = serving.codes], msg)
    /\ UNCHANGED <<editVars, cacheVars, resolveVars, lookup, renaming, session,
                   extraction, formatting, config, toplevel, sync, located, workspace, cursor>>

ReceiveRequest == \E msg \in Requests : Receive(msg)

ReceiveNotification == \E msg \in Notifications : Receive(msg)

ReceiveResponse == \E msg \in Responses : Receive(msg)

InitLoop ==
    /\ serving = NoServing
    /\ formatting = NoFormatting
    /\ config = NoConfig
    /\ toplevel = NoTopLevel
    /\ sync = NoSync
    /\ located = NoLocated
    /\ workspace = NoWorkspace
    /\ cursor = NoCursor
    /\ lookup = NoLookup
    /\ renaming = NoRename
    /\ session = NoSession
    /\ extraction = NoExtraction
    /\ IdleDocument
    /\ IdleCache
    /\ IdleResolve

NextLoop ==
    \/ ReceiveRequest
    \/ ReceiveNotification
    \/ ReceiveResponse

SpecLoop == InitLoop /\ [][NextLoop]_vars

\* the last message was a shutdown request
WasShutdown == serving.last.kind = "request" /\ serving.last.method = "shutdown"

\* the requests the handlers answer
AnsweredMethods ==
    {"textDocument/hover", "textDocument/completion", "textDocument/definition",
     "textDocument/documentSymbol", "textDocument/formatting", "textDocument/rename"}

\* C25: after handle_message has returned for a hover, completion,
\* definition, document-symbols, rename or formatting request, one response
\* (a result or an error) has been sent for it
C25_EveryRequestIsAnswered ==
    (serving.last.kind = "request" /\ serving.last.method \in AnsweredMethods) =>
        serving.reply \in {"result", "error"}

\* C20: after every message that is not a shutdown request handle_message
\* has returned Continue and the loop still receives, and the cached
\* documents other than the one of the message are as they were before
C20_OnlyShutdownEndsLoop ==
    (serving.last.kind # "none" /\ ~WasShutdown) =>
        /\ serving.action = "Continue"
        /\ serving.running
        /\ \A d \in LoopDocs \ {serving.last.uri} :
              serving.codes[d] = serving.before[d]

----------------------------------------------------------------------------
(* The formatting specification: one format-document request for a         *)
(* document, with every way the external formatter can behave.             *)

\* the document of the request as the cache holds it: its text (a number),
\* its changed flag and whether its items are generated
FormatDocs ==
    {[resident |-> TRUE, code |-> c, changed |-> ch, has_items |-> it] :
        c \in {1, 2}, ch \in BOOLEAN, it \in BOOLEAN}
    \cup {[resident |-> FALSE, code |-> 0, changed |-> FALSE, has_items |-> FALSE]}

\* what happens when the formatter is run: whether the file of the url can
\* be read, whether the executable is spawned, whether the write to its
\* stdin and the read of its stdout succeed, its exit status and the number
\* of bytes it writes to stdout
FormatRuns ==
    {[readable |-> rd, spawn |-> sp, write |-> wr, read |-> re, status |-> st,
      size |-> sz] :
        rd \in BOOLEAN, sp \in BOOLEAN, wr \in BOOLEAN, re \in BOOLEAN,
        st \in {0, 1}, sz \in {0, 1}}

\* get_code for the document of the request: the cached document, or the
\* file read, parsed and inserted
FormatGetCode(doc, run) ==
    IF doc.resident THEN doc
    ELSE IF run.readable
    THEN [resident |-> TRUE, code |-> 1, changed |-> TRUE, has_items |-> FALSE]
    ELSE doc

\* internal_err: Response { result: None, error: Some(code -32603) }
InternalError == [result |-> None, error |-> 0 - 32603]

\* Response { result: Some([TextEdit]), error: None }
FormatResult == [result |-> Some("edit"), error |-> 0]

\* handle_formatting after get_code: the responses it sends
FormatResponses(run) ==
    IF ~run.spawn THEN <<InternalError>>
    ELSE IF ~run.write THEN <<InternalError>>
    ELSE IF ~run.read THEN <<InternalError>>
    ELSE IF run.size > 0 THEN <<FormatResult>>
    ELSE <<>>

\* handle_formatting
handle_formatting(doc, run) ==
    [handled |-> TRUE, before |-> doc, after |-> FormatGetCode(doc, run), run |-> run,
     responses |-> IF FormatGetCode(doc, run).resident THEN FormatResponses(run)
                   ELSE <<>>]

InitFormat ==
    /\ formatting = NoFormatting
    /\ config = NoConfig
    /\ toplevel = NoTopLevel
    /\ sync = NoSync
    /\ located = NoLocated
    /\ workspace = NoWorkspace
    /\ cursor = NoCursor
    /\ serving = NoServing
    /\ lookup = NoLookup
    /\ renaming = NoRename
    /\ session = NoSession
    /\ extraction = NoExtraction
    /\ IdleDocument
    /\ IdleCache
    /\ IdleResolve

Format ==
    /\ \E doc \in FormatDocs : \E run \in FormatRuns :
           formatting' = handle_formatting(doc, run)
    /\ UNCHANGED <<editVars, cacheVars, resolveVars, lookup, renaming, session,
                   extraction, serving, config, toplevel, sync, located, workspace, cursor>>

NextFormat == Format

SpecFormat == InitFormat /\ [][NextFormat]_vars

\* the formatter failed: not spawned, a pipe failed, or a non-zero exit
FormatterFailed ==
    \/ ~formatting.run.spawn
    \/ ~formatting.run.write
    \/ ~formatting.run.read
    \/ formatting.run.status # 0

\* C21: a format-document request for a cached document whose formatter
\* fails is answered by one error response, and after every request the
\* text, the changed flag and the items of the document are as before
C21_FormatterFailureIsErrorResponse ==
    (formatting.handled /\ formatting.before.resident) =>
        /\ FormatterFailed =>
              /\ Len(formatting.responses) = 1
              /\ formatting.responses[1].error # 0
        /\ formatting.after = formatting.before

----------------------------------------------------------------------------
(* The configuration specification: workspace/didChangeConfiguration       *)
(* notifications with payloads that deserialize into Settings and payloads *)
(* that do not.  Directories are numbers; a search path is a sequence of   *)
(* directories.                                                            *)

\* the directories that exist on disk; a payload can also name directory 3
ExistingDirs == {1, 2}

\* the Settings a payload can deserialize into: openscad.search_paths,
\* default_param, indent, query_file, each an Option
SettingsPayloads ==
    {[ok |-> TRUE, search_paths |-> sp, default_param |-> dp, indent |-> ind,
      query_file |-> qf] :
        sp \in {None, Some(<<>>), Some(<<1>>), Some(<<2, 1>>), Some(<<3>>)},
        dp \in {None, Some(TRUE), Some(FALSE)},
        ind \in {None, Some("  ")},
        qf \in {None, Some("q.scm")}}

\* a payload serde_json::from_value::<Settings> rejects
MalformedPayload ==
    [ok |-> FALSE, search_paths |-> None, default_param |-> None, indent |-> None,
     query_file |-> None]

\* the configuration fields a notification can touch
Settled(cfg) ==
    [library_locations |-> cfg.library_locations, ignore_default |-> cfg.ignore_default,
     indent |-> cfg.indent, fmt_query |-> cfg.fmt_query]

RECURSIVE extend_libs(_, _, _)
\* extend_libs: each path that exists and is not yet in the list is pushed
extend_libs(libs, paths, i) ==
    IF i > Len(paths) THEN libs
    ELSE extend_libs(IF paths[i] \in ExistingDirs
                        /\ \A k \in 1..Len(libs) : libs[k] # paths[i]
                     THEN Append(libs, paths[i]) ELSE libs,
                     paths, i + 1)

\* Self::get_fmt_query(query_file): the text read from the file, or None for
\* the built-in query
get_fmt_query(query_file) ==
    IF query_file = None THEN None ELSE Some(<<"read", query_file[2]>>)

\* if let Some(settings) = settings { .. }
ApplySettings(cfg, p) ==
    [cfg EXCEPT
        !.library_locations =
            extend_libs(cfg.library_locations,
                        IF p.search_paths = None THEN <<>> ELSE p.search_paths[2], 1),
        !.ignore_default =
            IF p.default_param = None THEN cfg.ignore_default ELSE ~p.default_param[2],
        !.indent = IF cfg.indent = None THEN p.indent ELSE cfg.indent,
        !.fmt_query = IF cfg.query_file = None THEN get_fmt_query(p.query_file)
                      ELSE cfg.fmt_query]

\* a handler that takes the default Settings for a payload it cannot read
handle_did_change_config_default(cfg, p) ==
    [ApplySettings(cfg, p) EXCEPT !.handled = TRUE, !.malformed = ~p.ok,
                                  !.before = Settled(cfg)]

\* handle_did_change_config: Err(err) => { err_to_console!; return; }
handle_did_change_config(cfg, p) ==
    IF ~p.ok
    THEN [cfg EXCEPT !.handled = TRUE, !.malformed = TRUE, !.before = Settled(cfg)]
    ELSE [ApplySettings(cfg, p) EXCEPT !.handled = TRUE, !.malformed = FALSE,
                                       !.before = Settled(cfg)]

\* the server after Server::new with the command line's indent and query
\* file and the library locations found at start
InitConfig ==
    /\ \E libs \in {<<>>, <<1>>} : \E ind \in {None, Some("\t")} :
       \E qf \in {None, Some("cli.scm")} : \E ign \in BOOLEAN :
           config = [NoConfig EXCEPT
                        !.library_locations = libs, !.indent = ind, !.query_file = qf,
                        !.fmt_query = get_fmt_query(qf), !.ignore_default = ign,
                        !.before = [library_locations |-> libs, ignore_default |-> ign,
                                    indent |-> ind, fmt_query |-> get_fmt_query(qf)]]
    /\ toplevel = NoTopLevel
    /\ sync = NoSync
    /\ located = NoLocated
    /\ workspace = NoWorkspace
    /\ cursor = NoCursor
    /\ formatting = NoFormatting
    /\ serving = NoServing
    /\ lookup = NoLookup
    /\ renaming = NoRename
    /\ session = NoSession
    /\ extraction = NoExtraction
    /\ IdleDocument
    /\ IdleCache
    /\ IdleResolve

\* a notification whose settings deserialize
ChangeConfig ==
    /\ \E p \in SettingsPayloads : config' = handle_did_change_config(config, p)
    /\ UNCHANGED <<editVars, cacheVars, resolveVars, lookup, renaming, session,
                   extraction, serving, formatting, toplevel, sync, located, workspace, cursor>>

\* a notification whose settings do not deserialize
ChangeConfigMalformed ==
    /\ config' = handle_did_change_config(config, MalformedPayload)
    /\ UNCHANGED <<editVars, cacheVars, resolveVars, lookup, renaming, session,
                   extraction, serving, formatting, toplevel, sync, located, workspace, cursor>>

NextConfig ==
    \/ ChangeConfig
    \/ ChangeConfigMalformed

SpecConfig == InitConfig /\ [][NextConfig]_vars

\* C22: after a configuration notification whose payload does not
\* deserialize, the search directories, the default-parameter flag, the
\* indent and the formatter query are what they were before it
C22_MalformedConfigKeepsConfiguration ==
    (config.handled /\ config.malformed) => Settled(config) = config.before

\* a malformed payload arrives after earlier notifications have extended the
\* search directories and set a formatter query
C22_Witness ==
    /\ config.handled
    /\ config.malformed
    /\ Len(config.library_locations) = 2
    /\ config.fmt_query = get_fmt_query(Some("q.scm"))
    /\ Settled(config) = config.before

----------------------------------------------------------------------------
(* The extraction specification: gen_top_level_items on each document of   *)
(* the workspace, with the libraries present, unreadable or missing.       *)

\* the libraries whose files vary
VaryingFiles == {2, 3, 4}

InitTopLevel ==
    /\ \E st \in [VaryingFiles -> {"ok", "bad", "gone"}] :
          toplevel = [NoTopLevel EXCEPT
                         !.files = [u \in Files |-> IF u \in VaryingFiles THEN st[u]
                                                    ELSE "ok"]]
    /\ sync = NoSync
    /\ located = NoLocated
    /\ workspace = NoWorkspace
    /\ cursor = NoCursor
    /\ config = NoConfig
    /\ formatting = NoFormatting
    /\ serving = NoServing
    /\ lookup = NoLookup
    /\ renaming = NoRename
    /\ session = NoSession
    /\ extraction = NoExtraction
    /\ IdleDocument
    /\ IdleCache
    /\ IdleResolve

\* gen_top_level_items on the tree of a document
Extract ==
    /\ \E url \in Files \ {BUILTIN_PATH} :
          toplevel' = [url |-> url, files |-> toplevel.files,
                       root_items |-> GenTopLevel(toplevel.files, url).root_items,
                       includes |-> GenTopLevel(toplevel.files, url).includes]
    /\ UNCHANGED <<editVars, cacheVars, resolveVars, lookup, renaming, session,
                   extraction, serving, formatting, config, sync, located, workspace, cursor>>

NextTopLevel == Extract

SpecTopLevel == InitTopLevel /\ [][NextTopLevel]_vars

\* the children of the root of the document extraction ran on
RootKids == Tree(toplevel.url).kids

\* the positions among the children of the root of the assignments and the
\* function and module declarations, in source order
DeclarationChildren ==
    SelectSeq([i \in 1..Len(RootKids) |-> i],
              LAMBDA i : RootKids[i].kind \in
                  {"assignment", "function_declaration", "module_declaration"})

\* the positions of the include and use statements whose file exists
FoundIncludeChildren ==
    SelectSeq([i \in 1..Len(RootKids) |-> i],
              LAMBDA i : /\ RootKids[i].kind \in {"include_statement", "use_statement"}
                         /\ toplevel.files[RootKids[i].path] # "gone")

\* C23: the items are the assignments and the function and module
\* declarations among the direct children of the root, one each and in source
\* order, and the include edges are the include and use statements among
\* them whose file is found, one each and in source order
C23_TopLevelExtraction ==
    toplevel.url \in Files =>
        /\ [k \in 1..Len(toplevel.root_items) |-> toplevel.root_items[k].at]
              = [k \in 1..Len(DeclarationChildren) |-> <<DeclarationChildren[k]>>]
        /\ \A k \in 1..Len(toplevel.root_items) :
              toplevel.root_items[k].name = RootKids[toplevel.root_items[k].at[1]].name
        /\ [k \in 1..Len(toplevel.includes) |-> toplevel.includes[k].stmt]
              = [k \in 1..Len(FoundIncludeChildren) |-> <<FoundIncludeChildren[k]>>]
        /\ \A k \in 1..Len(toplevel.includes) :
              toplevel.includes[k].url = RootKids[toplevel.includes[k].stmt[1]].path

\* extraction ran on the document with nested declarations and includes
\* while its first include was missing: the use statement and the
\* declarations after it are extracted
C23_Witness ==
    /\ toplevel.url = MainFile
    /\ toplevel.files[2] = "gone"
    /\ Len(toplevel.includes) = 1
    /\ toplevel.includes[1].url = 3
    /\ Len(toplevel.root_items) = 4

----------------------------------------------------------------------------
(* The synchronisation specification: the editor opens, changes and closes *)
(* one document while the server also loads it from disk for requests and  *)
(* include targets and evicts it when the cache is full.  A text is a      *)
(* sequence of characters.                                                 *)

\* the longest text
MaxText == 2

SyncChars == {"a", "b"}

SyncTexts == UNION {[1..n -> SyncChars] : n \in 0..MaxText}

\* the text of the file on disk
SavedText == <<"a">>

\* a change event with a range: del characters from pos on are replaced by ins
SyncRanged(pos, del, ins) == [ranged |-> TRUE, pos |-> pos, del |-> del, text |-> ins]

\* a change event without range
SyncFull(text) == [ranged |-> FALSE, pos |-> 0, del |-> 0, text |-> text]

\* the text after one event, as the protocol defines it
ApplyEvent(text, ev) ==
    IF ev.ranged
    THEN SubSeq(text, 1, ev.pos) \o ev.text \o SubSeq(text, ev.pos + ev.del + 1, Len(text))
    ELSE ev.text

RECURSIVE ApplyAll(_, _, _)
\* the text of the editor after a batch: every event in order
ApplyAll(text, batch, i) ==
    IF i > Len(batch) THEN text ELSE ApplyAll(ApplyEvent(text, batch[i]), batch, i + 1)

RECURSIVE ServerEdit(_, _, _)
\* ParsedCode::edit: the events in order; an event without range replaces
\* the text and ends the loop; find_offset(..).unwrap() panics (None) when a
\* range does not lie in the text
ServerEdit(text, batch, i) ==
    IF i > Len(batch) THEN Some(text)
    ELSE IF ~batch[i].ranged THEN Some(batch[i].text)
    ELSE IF batch[i].pos + batch[i].del > Len(text) THEN None
    ELSE ServerEdit(ApplyEvent(text, batch[i]), batch, i + 1)

\* handle_did_change_text_document: an unknown document is left alone;
\* edited is what ParsedCode::edit makes of the cached text
SyncChanged(s, batch, edited) ==
    [editor |-> Some(ApplyAll(s.editor[2], batch, 1)),
     server |-> IF s.server = None \/ edited = None THEN s.server ELSE edited,
     op |-> "change",
     panicked |-> s.server # None /\ edited = None]

\* the text edit() is called on
CachedText(s) == IF s.server = None THEN <<>> ELSE s.server[2]

\* the cached text stays within the longest text
Bounded(s) == IF s.server = None THEN TRUE ELSE Len(s.server[2]) <= MaxText

\* the events the editor can send for a text
SyncEvents(text) ==
    {SyncRanged(p, d, ins) :
        p \in 0..Len(text), d \in 0..1, ins \in {<<>>, <<"a">>, <<"b">>}}
    \cup {SyncFull(t) : t \in {<<>>, <<"b">>}}

\* an event the editor can send: its range lies in the text and the result
\* is no longer than the longest text
SyncValid(text, ev) ==
    /\ ev.ranged => ev.pos + ev.del <= Len(text)
    /\ Len(ApplyEvent(text, ev)) <= MaxText

InitSync ==
    /\ sync = NoSync
    /\ located = NoLocated
    /\ workspace = NoWorkspace
    /\ cursor = NoCursor
    /\ toplevel = NoTopLevel
    /\ config = NoConfig
    /\ formatting = NoFormatting
    /\ serving = NoServing
    /\ lookup = NoLookup
    /\ renaming = NoRename
    /\ session = NoSession
    /\ extraction = NoExtraction
    /\ IdleDocument
    /\ IdleCache
    /\ IdleResolve

SyncFrame ==
    UNCHANGED <<editVars, cacheVars, resolveVars, lookup, renaming, session,
                extraction, serving, formatting, config, toplevel, located, workspace, cursor>>

\* handle_did_open_text_document: a cached url is left as it is
SyncOpen ==
    /\ ~sync.panicked
    /\ sync.editor = None
    /\ \E text \in SyncTexts :
          sync' = [sync EXCEPT
                      !.editor = Some(text),
                      !.server = IF sync.server # None THEN sync.server ELSE Some(text),
                      !.op = "open"]
    /\ SyncFrame

\* handle_did_change_text_document with one event
SyncChangeOne ==
    /\ ~sync.panicked
    /\ sync.editor # None
    /\ \E ev \in SyncEvents(sync.editor[2]) :
          /\ SyncValid(sync.editor[2], ev)
          /\ sync' = SyncChanged(sync, <<ev>>, ServerEdit(CachedText(sync), <<ev>>, 1))
          /\ Bounded(sync')
    /\ SyncFrame

\* handle_did_change_text_document with an event without range followed by
\* an event with a range
SyncChangeTwo ==
    /\ ~sync.panicked
    /\ sync.editor # None
    /\ \E e1 \in {SyncFull(<<>>), SyncFull(<<"b">>)} :
       \E e2 \in {SyncRanged(0, 0, <<"a">>)} :
          /\ sync' = SyncChanged(sync, <<e1, e2>>, ServerEdit(CachedText(sync), <<e1, e2>>, 1))
          /\ Bounded(sync')
    /\ SyncFrame

\* handle_did_close_text_document: the cache keeps the document
SyncClose ==
    /\ ~sync.panicked
    /\ sync.editor # None
    /\ sync' = [sync EXCEPT !.editor = None, !.op = "close"]
    /\ SyncFrame

\* get_code for a request on the document or for an include statement that
\* names it: a document that is not cached is read from disk
SyncLoad ==
    /\ ~sync.panicked
    /\ sync' = [sync EXCEPT !.server = IF sync.server # None THEN sync.server
                                       ELSE Some(SavedText),
                            !.op = "load"]
    /\ SyncFrame

\* insert_code for other documents while the cache is full and this document
\* is its oldest entry
SyncEvict ==
    /\ ~sync.panicked
    /\ sync.server # None
    /\ sync' = [sync EXCEPT !.server = None, !.op = "evict"]
    /\ SyncFrame

NextSync ==
    \/ SyncOpen
    \/ SyncChangeOne
    \/ SyncChangeTwo
    \/ SyncClose
    \/ SyncLoad
    \/ SyncEvict

SpecSync == InitSync /\ [][NextSync]_vars

\* C24: while the editor has the document open, the text the server holds
\* for it is the text the editor holds
C24_ServerTextIsEditorText ==
    sync.editor # None => (sync.server = sync.editor /\ ~sync.panicked)

----------------------------------------------------------------------------
(* The nested-scope specification: requests in the document whose modules  *)
(* are declared inside one another.                                        *)

\* the document with nested declarations
NestedFile == Cardinality(Files) - 2

\* handle_did_open_text_document for the document
OpenNested ==
    /\ Alive
    /\ ~resident[NestedFile].loaded
    /\ resident' = [resident EXCEPT ![NestedFile] = Fresh]
    /\ answer' = [NoAnswer EXCEPT !.op = "open", !.url = NestedFile]
    /\ UNCHANGED <<disk, editVars, cacheVars, restVars>>

\* handle_hover, handle_definition on an identifier of the document
HoverNested ==
    \E at \in RefPoints(NestedFile) :
        /\ Layout[NestedFile][at].node.kind = "identifier"
        /\ RequestIn(NestedFile, "hover", at, {Layout[NestedFile][at].node.name}, FALSE)

\* handle_completion in the document
CompletionNested ==
    \E at \in RefPoints(NestedFile) :
        RequestIn(NestedFile, "completion", at, Names, TRUE)

\* handle_did_change_text_document with a change that leaves the syntax tree
\* as it is
TouchNested ==
    /\ Alive
    /\ resident[NestedFile].loaded
    /\ resident[NestedFile].includes # None
    /\ resident' = [resident EXCEPT ![NestedFile] = Fresh]
    /\ answer' = [NoAnswer EXCEPT !.op = "change", !.url = NestedFile]
    /\ UNCHANGED <<disk, editVars, cacheVars, restVars>>

\* the names declared in the document, and one declared in the builtin file
NestedNames == {"o", "i", "j", "a", "r", "t", "u", "v", "cube"}

\* find_identities for one name or two, for the first declaration or for all
FindNested ==
    \E at \in RefPoints(NestedFile) : \E findall \in BOOLEAN :
    \E names \in {ns \in SUBSET NestedNames : Cardinality(ns) \in {1, 2}} :
        RequestIn(NestedFile, "find_all", at, names, findall)

NextNested ==
    \/ OpenNested
    \/ TouchNested
    \/ HoverNested
    \/ CompletionNested
    \/ FindNested

SpecNested == InitResolve /\ [][NextNested]_vars

\* the node `at` is the node the walk from `start` passes at its level, or a
\* preceding sibling of it
SelfOrPreceding(at, start) ==
    /\ Len(at) <= Len(start)
    /\ Parent(at) = SubSeq(start, 1, Len(at) - 1)
    /\ at[Len(at)] <= start[Len(at)]

\* the declarations inside a block that follow the node the walk from `start`
\* passes at their level
Followers(url, start, names) ==
    {at \in Paths(url) :
        /\ Len(at) >= 2
        /\ Len(at) <= Len(start)
        /\ Parent(at) = SubSeq(start, 1, Len(at) - 1)
        /\ at[Len(at)] > start[Len(at)]
        /\ ParseItem(Layout[url][at].node) # None
        /\ Layout[url][at].node.name \in names}

\* the declarations of the answered document found below its top level
NestedFound(items) ==
    {items[k].at : k \in {n \in 1..Len(items) :
                            /\ items[n].via = 0
                            /\ items[n].param = 0
                            /\ Len(items[n].at) >= 2}}

\* C26: below the top level a search returns only declarations that are the
\* node the walk passes at their level or a preceding sibling of it; a
\* declaration that follows the chain of ancestors of the reference inside a
\* block is not returned, for the first match or for all matches
C26_OnlyPrecedingSiblingsBelowTopLevel ==
    answer.op \in FindOps =>
        \A at \in NestedFound(answer.result) \cup NestedFound(answer.all) :
            /\ SelfOrPreceding(at, answer.start_node)
            /\ at \notin Followers(answer.url, answer.start_node, answer.names)

\* all declarations were asked for from inside two nested modules; one that
\* precedes the inner module was returned, one that follows it exists
C26_Witness ==
    /\ answer.op = "completion"
    /\ ~answer.panicked
    /\ Followers(answer.url, answer.start_node, answer.names) # {}
    /\ \E at \in NestedFound(answer.result) :
          /\ Len(at) < Len(answer.start_node)
          /\ at[Len(at)] < answer.start_node[Len(at)]
          /\ Layout[answer.url][at].node.kind = "assignment"

\* the module and function declarations whose range encloses the node
Enclosing(url, start) ==
    {at \in Paths(url) :
        /\ at # <<>>
        /\ Len(at) < Len(start)
        /\ SubSeq(start, 1, Len(at)) = at
        /\ Layout[url][at].node.kind \in Callables}

\* C27: the parameters of every declaration that encloses the reference, the
\* innermost and the outer ones, are among the matches when the comparator
\* accepts their names
C27_ParametersOfEveryEnclosingDeclaration ==
    (answer.op \in FindOps /\ ~answer.panicked) =>
        \A at \in Enclosing(answer.url, answer.start_node) :
        \A k \in 1..Len(Layout[answer.url][at].node.params) :
            Layout[answer.url][at].node.params[k] \in answer.names =>
                \E n \in 1..Len(answer.all) :
                    /\ answer.all[n].url = answer.url
                    /\ answer.all[n].at = at
                    /\ answer.all[n].param = k

----------------------------------------------------------------------------
(* The specification of a declaration without a name: requests in the      *)
(* document whose second nested module has parameters and a body but no    *)
(* name, so that Item::parse returns None for it.                          *)

\* the document with the nameless module
NamelessFile == Cardinality(Files) - 1

\* handle_did_open_text_document for the document
OpenNameless ==
    /\ Alive
    /\ ~resident[NamelessFile].loaded
    /\ resident' = [resident EXCEPT ![NamelessFile] = Fresh]
    /\ answer' = [NoAnswer EXCEPT !.op = "open", !.url = NamelessFile]
    /\ UNCHANGED <<disk, editVars, cacheVars, restVars>>

\* handle_hover, handle_definition on an identifier of the document
HoverNameless ==
    \E at \in RefPoints(NamelessFile) :
        /\ Layout[NamelessFile][at].node.kind = "identifier"
        /\ RequestIn(NamelessFile, "hover", at,
                     {Layout[NamelessFile][at].node.name}, FALSE)

\* the names of the document
NamelessNames == {"o", "i", "j", "a", "r", "t", "v"}

\* find_identities for one name or two, for the first declaration or for all
FindNameless ==
    \E at \in RefPoints(NamelessFile) : \E findall \in BOOLEAN :
    \E names \in {ns \in SUBSET NamelessNames : Cardinality(ns) \in {1, 2}} :
        RequestIn(NamelessFile, "find_all", at, names, findall)

NextNameless ==
    \/ OpenNameless
    \/ HoverNameless
    \/ FindNameless

SpecNameless == InitResolve /\ [][NextNameless]_vars

\* the module and function declarations whose source range holds the node
InRangeOf(url, start) ==
    {at \in Paths(url) :
        /\ at # <<>>
        /\ Len(at) <= Len(start)
        /\ SubSeq(start, 1, Len(at)) = at
        /\ Layout[url][at].node.kind \in Callables}

\* the declarations of the answered document whose parameters are among the
\* items
ParamOwners(items) ==
    {items[k].at : k \in {n \in 1..Len(items) : items[n].via = 0 /\ items[n].param > 0}}

\* C36: a search returns parameters only of declarations whose source range
\* holds the reference, never those of a preceding sibling declaration, also
\* when an enclosing declaration has no name
C36_ParametersOnlyOfEnclosingDeclarations ==
    answer.op \in FindOps =>
        ParamOwners(answer.result) \cup ParamOwners(answer.all)
            \subseteq InRangeOf(answer.url, answer.start_node)

\* C29: the builtin document Server::new inserted stays in the cache, so that
\* every search finds it, whatever documents are opened and loaded
C29_BuiltinStaysResident == contains_key(codes, BUILTIN_PATH)

----------------------------------------------------------------------------
(* Properties of the InputEdit that ParsedCode::edit hands to Tree::edit *)

\* the byte offset of a position of the text s
ByteOffset(s, pos) == Len(Encode(SubSeq(s, 1, PosIndex(s, pos))))

\* the index after the last newline among the first idx scalars of s
LastLineStart(s, idx) ==
    IF \E i \in 1..idx : s[i] = "nl" THEN Max({i \in 1..idx : s[i] = "nl"}) ELSE 0

\* row and column of the point after the first idx scalars of s, the column
\* counted in scalar values
PointInChars(s, idx) == <<NlCount(SubSeq(s, 1, idx)), idx - LastLineStart(s, idx)>>

\* the same point with the column counted in bytes
PointInBytes(s, idx) ==
    <<NlCount(SubSeq(s, 1, idx)), Len(Encode(SubSeq(s, LastLineStart(s, idx) + 1, idx)))>>

\* the last event of the batch was ranged and the loop met it
LastEdit ==
    /\ log.op = "edit"
    /\ log.allRanged
    /\ log.events >= 1
    /\ ~log.panicked

\* start_byte, old_end_byte and new_end_byte of the recorded edit are the
\* offsets of the range in the text the event met and the end of the text it
\* inserted
InputEditBytes ==
    /\ log.input_edit.start_byte = ByteOffset(log.before, log.event.start)
    /\ log.input_edit.old_end_byte = ByteOffset(log.before, log.event.end)
    /\ log.input_edit.new_end_byte =
          log.input_edit.start_byte + Len(Encode(log.event.text))

\* new_end_position is the point where the inserted text ends in the text
\* after the event, its column in scalar values or in bytes
InputEditPoint ==
    \E idx \in {PosIndex(log.before, log.event.start) + Len(log.event.text)} :
        log.input_edit.new_end_position
            \in {PointInChars(RefApply(log.before, log.event), idx),
                 PointInBytes(RefApply(log.before, log.event), idx)}

\* C30: the edit recorded for a ranged event has the byte offsets of the
\* range in the text before the event, new_end_byte = start_byte + the byte
\* length of the replacement, and as new_end_position the row and column at
\* which the replacement ends in the text after the event
C30_InputEditOfRangedEvent == LastEdit => (InputEditBytes /\ InputEditPoint)

----------------------------------------------------------------------------
(* The offset specification: find_offset called for a text and a position  *)
(* that lies in the text or outside it.                                    *)

\* the largest line and the largest character of a position asked for
MaxPosLine == 3
MaxPosCharacter == 3

InitOffset ==
    /\ located = NoLocated
    /\ workspace = NoWorkspace
    /\ cursor = NoCursor
    /\ sync = NoSync
    /\ toplevel = NoTopLevel
    /\ config = NoConfig
    /\ formatting = NoFormatting
    /\ serving = NoServing
    /\ lookup = NoLookup
    /\ renaming = NoRename
    /\ session = NoSession
    /\ extraction = NoExtraction
    /\ IdleDocument
    /\ IdleCache
    /\ IdleResolve

\* find_offset(text, pos)
Locate ==
    \E t \in AllTexts : \E pos \in (0..MaxPosLine) \X (0..MaxPosCharacter) :
        /\ located' = [text |-> Encode(t), pos |-> pos,
                       offset |-> find_offset(Encode(t), pos[1], pos[2]),
                       asked |-> TRUE]
        /\ UNCHANGED <<editVars, cacheVars, resolveVars, lookup, renaming, session,
                       extraction, serving, formatting, config, toplevel, sync, workspace, cursor>>

NextOffset == Locate

SpecOffset == InitOffset /\ [][NextOffset]_vars

\* the position asked for lies in the text
Inside == located.pos \in PositionsIn(Decode(located.text))

\* C31: for a position that lies in the text find_offset returns the byte
\* offset reached after `line` newlines and `character` scalar values of that
\* line, each scalar value counted once whatever its length in bytes
C31_OffsetOfPositionInside ==
    (located.asked /\ Inside) =>
        located.offset = ByteOffset(Decode(located.text), located.pos)

\* a position after a newline and a two-byte scalar value was asked for
C31_Witness ==
    /\ located.asked
    /\ Inside
    /\ located.pos[1] >= 1
    /\ located.pos[2] >= 1
    /\ located.offset > PosIndex(Decode(located.text), located.pos)

\* C38: for a position whose line is past the last line of the text or whose
\* character is past the end of its line find_offset returns None: no offset
\* on another line, past the end of the text or inside a scalar value, and no
\* panic
C38_NoOffsetForPositionOutside ==
    (located.asked /\ ~Inside) => located.offset = NoneOfs

----------------------------------------------------------------------------
(* Properties of the diagnostics of a change notification *)

\* the diagnostics of the error pass among those of a notification
OfErrorPass(diagnostics) ==
    SelectSeq(diagnostics, LAMBDA d : d.message # "file not found!")

\* the lines of a document whose statement holds an ERROR or a MISSING node
ErrorLines(lines) == {i \in 1..Len(lines) : lines[i] \in {"error", "missing"}}

----------------------------------------------------------------------------
(* Properties of the workspace edit of a rename *)

\* the node whose scope is looked for: the declaration for the name of a
\* module, else the reference itself
ScopedNode(t, at) ==
    IF NodeAt(t, Parent(at)).kind = "module_declaration" THEN Parent(at) ELSE at

\* the nearest enclosing scope of a reference: the innermost document,
\* module declaration or block around it
NearestScope(t, at) ==
    CHOOSE p \in PathsUnder(t, <<>>) :
        /\ NodeAt(t, p).kind \in ScopeKinds
        /\ Above(p, ScopedNode(t, at))
        /\ \A q \in PathsUnder(t, <<>>) :
              (NodeAt(t, q).kind \in ScopeKinds /\ Above(q, ScopedNode(t, at)))
                  => Len(q) <= Len(p)

\* C33: the workspace edit of a successful rename has one key, the document
\* of the request; each of its text edits lies in the nearest enclosing scope
\* of the reference, covers one identifier that had the original name and
\* carries the new name; no two edits overlap
C33_RenameEditsOneDocumentInScope ==
    (renaming.responses # <<>> /\ renaming.responses[1].result # None) =>
        /\ Len(renaming.responses) = 1
        /\ renaming.responses[1].keys = <<renaming.doc>>
        /\ \A k \in 1..Len(Edits) :
              /\ Above(NearestScope(RenamedTree, renaming.at), Edits[k].at)
              /\ NodeAt(RenamedTree, Edits[k].at).kind = "identifier"
              /\ NodeAt(RenamedTree, Edits[k].at).kids = <<>>
              /\ NodeAt(RenamedTree, Edits[k].at).name
                    = NodeAt(RenamedTree, renaming.at).name
              /\ Edits[k].start = start_byte(RenamedTree, Edits[k].at)
              /\ Edits[k].end = end_byte(RenamedTree, Edits[k].at)
              /\ Edits[k].new_text = renaming.new_name
        /\ \A k \in 1..Len(Edits) : \A j \in 1..Len(Edits) :
              k # j => (Edits[k].end <= Edits[j].start \/ Edits[j].end <= Edits[k].start)

\* a rename inside a module body returned two edits while the name also
\* occurs outside the body
C33_Witness ==
    /\ renaming.responses # <<>>
    /\ renaming.responses[1].result # None
    /\ Len(Edits) = 2
    /\ NearestScope(RenamedTree, renaming.at) # <<>>
    /\ \E at \in PathsUnder(RenamedTree, <<>>) :
          /\ NodeAt(RenamedTree, at).kind = "identifier"
          /\ NodeAt(RenamedTree, at).name = NodeAt(RenamedTree, renaming.at).name
          /\ ~Above(NearestScope(RenamedTree, renaming.at), at)

----------------------------------------------------------------------------
(* The settings specification: one resident document in directory 1,       *)
(*     include <a>;  module m(p, q = 1) {}                                 *)
(* whose include names a file that exists in directory 2 only; the editor  *)
(* asks for completions at the end of the document, changes the document   *)
(* and sends configuration notifications.                                  *)

\* the parameters of module m
SnippetParams == <<[name |-> "p", default |-> None], [name |-> "q", default |-> Some("1")]>>

\* the files that exist
LibraryFiles == {[dir |-> 2, path |-> <<"a">>]}

\* params.iter().filter(|p| p.default.is_none() || !args.ignore_default)
KeptParams(params, ignore_default) ==
    SelectSeq(params, LAMBDA p : p.default = None \/ ~ignore_default)

\* Param::make_snippet: for each parameter that is kept, `name = default`,
\* `${i:name}` or `name = ${i:name}`
make_snippet(params, ignore_name, ignore_default) ==
    [i \in 1..Len(KeptParams(params, ignore_default)) |->
        IF ~ignore_default /\ KeptParams(params, ignore_default)[i].default # None
        THEN [form |-> "default", index |-> 0,
              name |-> KeptParams(params, ignore_default)[i].name,
              default |-> KeptParams(params, ignore_default)[i].default]
        ELSE [form |-> IF ignore_name THEN "placeholder" ELSE "named placeholder",
              index |-> i,
              name |-> KeptParams(params, ignore_default)[i].name,
              default |-> None]]

\* Item::get_snippet: the snippet is made once and kept in the item
get_snippet(snippet, ignore_default) ==
    IF snippet = None THEN Some(make_snippet(SnippetParams, FALSE, ignore_default))
    ELSE snippet

\* the search directories as urls
LibUrls(libs) == [k \in 1..Len(libs) |-> FileUrl(libs[k])]

\* gen_top_level_items: the items are built anew (no snippet yet) and each
\* include statement that get_include_url resolves goes to includes
GenWorkspaceItems(ws, libs) ==
    [ws EXCEPT
        !.changed = FALSE,
        !.snippet = None,
        !.includes =
            Some(IF GetIncludeUrl(FileUrl(1), LibUrls(libs), Literal(<<"a">>),
                                  LibraryFiles) = None
                 THEN <<>>
                 ELSE <<GetIncludeUrl(FileUrl(1), LibUrls(libs), Literal(<<"a">>),
                                      LibraryFiles)[2]>>)]

\* gen_top_level_items_if_needed: if self.root_items.is_some() && !self.changed
GenWorkspaceItemsIfNeeded(ws, libs) ==
    IF ws.includes # None /\ ~ws.changed THEN ws ELSE GenWorkspaceItems(ws, libs)

\* handle_completion at the top level: the items of the document and of the
\* documents in code.includes, each with its snippet
CompletionOf(ws, ignore_default) ==
    [ws EXCEPT
        !.snippet = get_snippet(ws.snippet, ignore_default),
        !.last = [op |-> "completion",
                  included |-> ws.includes[2] # <<>>,
                  snippet |-> get_snippet(ws.snippet, ignore_default)[2]]]

InitSettings ==
    /\ \E libs \in {<<>>, <<1>>} : \E ign \in BOOLEAN :
           config = [NoConfig EXCEPT
                        !.library_locations = libs, !.ignore_default = ign,
                        !.before = [library_locations |-> libs, ignore_default |-> ign,
                                    indent |-> None, fmt_query |-> None]]
    /\ workspace = [NoWorkspace EXCEPT !.changed = TRUE, !.last.op = "open"]
    /\ cursor = NoCursor
    /\ located = NoLocated
    /\ toplevel = NoTopLevel
    /\ sync = NoSync
    /\ formatting = NoFormatting
    /\ serving = NoServing
    /\ lookup = NoLookup
    /\ renaming = NoRename
    /\ session = NoSession
    /\ extraction = NoExtraction
    /\ IdleDocument
    /\ IdleCache
    /\ IdleResolve

\* workspace/didChangeConfiguration
Configure ==
    /\ \E p \in SettingsPayloads \cup {MalformedPayload} :
          config' = handle_did_change_config(config, p)
    /\ workspace' = [workspace EXCEPT !.last.op = "config"]
    /\ UNCHANGED <<editVars, cacheVars, resolveVars, lookup, renaming, session,
                   extraction, serving, formatting, toplevel, sync, located, cursor>>

\* textDocument/completion
Complete ==
    /\ workspace' = CompletionOf(GenWorkspaceItemsIfNeeded(workspace,
                                                           config.library_locations),
                                 config.ignore_default)
    /\ UNCHANGED <<editVars, cacheVars, resolveVars, lookup, renaming, session,
                   extraction, serving, formatting, config, toplevel, sync, located, cursor>>

\* textDocument/didChange with an edit that leaves the statements as they are
EditWorkspace ==
    /\ workspace' = [workspace EXCEPT !.changed = TRUE, !.last.op = "change"]
    /\ UNCHANGED <<editVars, cacheVars, resolveVars, lookup, renaming, session,
                   extraction, serving, formatting, config, toplevel, sync, located, cursor>>

NextSettings ==
    \/ Configure
    \/ Complete
    \/ EditWorkspace

SpecSettings == InitSettings /\ [][NextSettings]_vars

\* the include statement resolves against the search directories as they are
Resolvable ==
    GetIncludeUrl(FileUrl(1), LibUrls(config.library_locations), Literal(<<"a">>),
                  LibraryFiles) # None

\* C34: once a configuration change has added the directory through which
\* the include of the resident document resolves, every query returns the
\* declarations of the included file, with no edit of the document needed
C34_QueriesResolveAgainstExtendedLibs ==
    (workspace.last.op = "completion" /\ Resolvable) => workspace.last.included

\* C35: the snippet of every item of a completion response is made with the
\* default-parameter flag as it is at the request, also for an item whose
\* snippet was requested before the flag changed
C35_SnippetFollowsDefaultParamFlag ==
    workspace.last.op = "completion" =>
        workspace.last.snippet = make_snippet(SnippetParams, FALSE, config.ignore_default)

----------------------------------------------------------------------------
(* The lookup-point specification: the point handle_completion computes    *)
(* from the position of a completion request, in the usize arithmetic of   *)
(* the build.                                                              *)

\* the width of usize: 16 bits, the narrowest pointer width of a Rust target;
\* the subtraction wraps in the same way at 32 and 64 bits
UsizeBits == 16

UsizeRange == 2 ^ UsizeBits

\* the positions of the requests
MaxPointRow == 9

MaxPointColumn == 10

\* to_point: row: p.line as usize, column: p.character as usize
to_point(p) == <<p[1] % UsizeRange, p[2] % UsizeRange>>

\* a usize subtraction of one: with overflow checks it panics at zero,
\* without them it wraps around
SubOne(n, overflow_checks) ==
    IF n = 0 /\ overflow_checks THEN None ELSE Some((n + UsizeRange - 1) % UsizeRange)

\* if point.column > 0 { point.column -= 1 } else { point.row -= 1 }
LookupPoint(point, overflow_checks) ==
    IF point[2] > 0
    THEN Some(<<point[1], point[2] - 1>>)
    ELSE IF SubOne(point[1], overflow_checks) = None
    THEN None
    ELSE Some(<<SubOne(point[1], overflow_checks)[2], point[2]>>)

InitPoint ==
    /\ cursor = NoCursor
    /\ workspace = NoWorkspace
    /\ located = NoLocated
    /\ sync = NoSync
    /\ toplevel = NoTopLevel
    /\ config = NoConfig
    /\ formatting = NoFormatting
    /\ serving = NoServing
    /\ lookup = NoLookup
    /\ renaming = NoRename
    /\ session = NoSession
    /\ extraction = NoExtraction
    /\ IdleDocument
    /\ IdleCache
    /\ IdleResolve

\* handle_completion up to the lookup point, in a build with overflow checks
\* (debug) or without (release)
CompletionPoint ==
    \E pos \in (0..MaxPointRow) \X (0..MaxPointColumn) :
    \E overflow_checks \in BOOLEAN :
    \E p \in {LookupPoint(to_point(pos), overflow_checks)} :
        /\ cursor' = [pos |-> pos,
                      point |-> IF p = None THEN to_point(pos) ELSE p[2],
                      panicked |-> p = None,
                      asked |-> TRUE]
        /\ UNCHANGED <<editVars, cacheVars, resolveVars, lookup, renaming, session,
                       extraction, serving, formatting, config, toplevel, sync,
                       located, workspace>>

NextPoint == CompletionPoint

SpecPoint == InitPoint /\ [][NextPoint]_vars

\* the point one column to the left of a position, or in the previous row
\* when the column is 0, in unbounded integers
LeftOf(pos) == IF pos[2] > 0 THEN <<pos[1], pos[2] - 1>> ELSE <<pos[1] - 1, pos[2]>>

\* C39: for a completion request at any position, line 0 column 0 included,
\* the lookup point is computed without a panic and is the point one column
\* to the left of the position, or in the previous row when the column is 0:
\* the subtraction does not go below zero
C39_LookupPointWithoutUnderflow ==
    cursor.asked => (~cursor.panicked /\ cursor.point = LeftOf(cursor.pos))

====
